---- MODULE Spec2Model ----
(***************************************************************************)
(* CNAB-80 ingestion: the structural validator, the record validator, the  *)
(* field decoder, the batch parser and the transaction type catalog of the *)
(* two backends (.NET: CNABParserService, Node: index.ts + cnabParser.ts). *)
(*                                                                         *)
(* File contents and lines are TLA+ strings; a character is a string of    *)
(* length one.  The alphabet is ASCII plus one non-ASCII decimal digit,    *)
(* U+0663 ARABIC-INDIC DIGIT THREE, which the module writes as "%".        *)
(***************************************************************************)
EXTENDS Integers, Sequences, FiniteSets, TLC

VARIABLES
    backend,        \* "dotnet" or "node": which implementation runs
    content,        \* the input: a file content, or one record
    caller,         \* "none", "parse" or "validate": who started the batch parser
    pc,             \* "Idle", "Scanning", "Accepting", "Failed", "Done"
    lines,          \* the retained lines of the running ParseContent
    lineIndex,      \* 1-based position of the next line of the foreach
    transactions,   \* the batch under construction
    validated,      \* positions of the lines handed to the record validator
    decoded,        \* positions of the lines handed to the field decoder
    parseResult,    \* what ParseContent returned or threw
    validateResult, \* what ValidateFile returned
    recordResult,   \* record validator / field decoder applied to one record
    lookup,         \* a catalog lookup: function, code and outcome
    calls,          \* per worker: the invocation of parse or validate it runs
    db,             \* the tables: FileUploads, Stores, TransactionTypes, Transactions
    request,        \* the last upload request: its content, answer and effect
    summary,        \* the last answer of the store summary
    disk,           \* the upload directory: chunk files, info files, assembled files
    chunked,        \* the last request of the chunked upload API and what it did
    client,         \* the upload view: the file being sent and where performUpload is
    view            \* the balance view: its refs and the detail fetches in flight

vars == <<backend, content, caller, pc, lines, lineIndex, transactions,
          validated, decoded, parseResult, validateResult, recordResult, lookup,
          calls, db, request, summary, disk, chunked, client, view>>

\* the chunked upload and the two views of the frontend
uiVars == <<disk, chunked, client, view>>

\* the state of the services around the single parser
serviceVars == <<calls, db, request, summary, uiVars>>

Backends == {"dotnet", "node"}

(***************************************************************************)
(* Characters and strings                                                  *)
(***************************************************************************)
ArabicIndicThree == "%"

AsciiDigits == {"0", "1", "2", "3", "4", "5", "6", "7", "8", "9"}

WhiteSpace == {" ", "\t", "\r", "\n"}

Char(s, i) == SubSeq(s, i, i)

Min(a, b) == IF a < b THEN a ELSE b

\* char.IsDigit and the .NET regex class \d: any Unicode decimal digit
IsDigit(c) == c \in AsciiDigits \cup {ArabicIndicThree}

\* the JavaScript regex class \d: 0-9 only
IsAsciiDigit(c) == c \in AsciiDigits

\* String.Substring(startIndex, length), 0-based
Substring(s, start, len) == SubSeq(s, start + 1, start + len)

\* String.prototype.substring(start, end), 0-based, end exclusive and clamped
substring(s, start, end) == SubSeq(s, start + 1, Min(end, Len(s)))

\* n copies of c
RECURSIVE Repeat(_, _)
Repeat(c, n) ==
    IF n = 0 THEN ""
    ELSE IF n % 2 = 0 THEN Repeat(c \o c, n \div 2)
    ELSE c \o Repeat(c, n - 1)

\* s without its longest suffix made of characters of cs
TrimEndChars(s, cs) ==
    LET n == CHOOSE k \in 0..Len(s) :
                 /\ k = 0 \/ Char(s, k) \notin cs
                 /\ \A j \in (k + 1)..Len(s) : Char(s, j) \in cs
    IN  SubSeq(s, 1, n)

\* s without its longest prefix of white space
TrimStart(s) ==
    LET n == CHOOSE k \in 1..(Len(s) + 1) :
                 /\ k = Len(s) + 1 \/ Char(s, k) \notin WhiteSpace
                 /\ \A j \in 1..(k - 1) : Char(s, j) \in WhiteSpace
    IN  SubSeq(s, n, Len(s))

\* String.Trim() / String.prototype.trim()
Trim(s) == TrimStart(TrimEndChars(s, WhiteSpace))

IsNullOrWhiteSpace(s) == \A i \in 1..Len(s) : Char(s, i) \in WhiteSpace

\* the pieces of s from position start on, cut at every line feed
RECURSIVE SplitFrom(_, _)
SplitFrom(s, start) ==
    IF \E i \in start..Len(s) : Char(s, i) = "\n"
    THEN LET nl == CHOOSE i \in start..Len(s) :
                       /\ Char(s, i) = "\n"
                       /\ \A j \in start..(i - 1) : Char(s, j) # "\n"
         IN  <<SubSeq(s, start, nl - 1)>> \o SplitFrom(s, nl + 1)
    ELSE <<SubSeq(s, start, Len(s))>>

\* content.Split('\n') / content.split('\n')
Split(s) == SplitFrom(s, 1)

\* line.TrimEnd('\r', '\n') / line.replace(/[\r\n]+$/, '')
StripLineEnd(s) == TrimEndChars(s, {"\r", "\n"})

DigitVal(c) ==
    CASE c = "0" -> 0 [] c = "1" -> 1 [] c = "2" -> 2 [] c = "3" -> 3
      [] c = "4" -> 4 [] c = "5" -> 5 [] c = "6" -> 6 [] c = "7" -> 7
      [] c = "8" -> 8 [] c = "9" -> 9

RECURSIVE DigitsValue(_)
DigitsValue(s) ==
    IF Len(s) = 0 THEN 0
    ELSE 10 * DigitsValue(SubSeq(s, 1, Len(s) - 1)) + DigitVal(Char(s, Len(s)))

\* the longest prefix of s made of ASCII digits
LeadingDigits(s) ==
    LET n == CHOOSE k \in 0..Len(s) :
                 /\ \A j \in 1..k : Char(s, j) \in AsciiDigits
                 /\ k = Len(s) \/ Char(s, k + 1) \notin AsciiDigits
    IN  SubSeq(s, 1, n)

AllAsciiDigits(s) == \A i \in 1..Len(s) : Char(s, i) \in AsciiDigits

\* JavaScript numbers as far as the parser needs them: NaN or an integer
NaN == [nan |-> TRUE, val |-> 0]
Num(v) == [nan |-> FALSE, val |-> v]

HasSign(t) == Len(t) > 0 /\ Char(t, 1) \in {"+", "-"}

IsNegative(t) == Len(t) > 0 /\ Char(t, 1) = "-"

Unsigned(t) == IF HasSign(t) THEN SubSeq(t, 2, Len(t)) ELSE t

Signed(negative, v) == IF negative THEN 0 - v ELSE v

parseIntDigits(d, negative) ==
    IF Len(d) = 0 THEN NaN ELSE Num(Signed(negative, DigitsValue(d)))

parseIntTrimmed(t) == parseIntDigits(LeadingDigits(Unsigned(t)), IsNegative(t))

\* parseInt(s): leading white space, an optional sign, then the longest run
\* of ASCII digits; NaN when there is none (the alphabet has no "x", so the
\* hexadecimal prefix never occurs)
parseInt(s) == parseIntTrimmed(TrimStart(s))

IntParseDigits(body, negative) ==
    IF Len(body) = 0 \/ ~AllAsciiDigits(body) THEN [ok |-> FALSE, val |-> 0]
    ELSE [ok |-> TRUE, val |-> Signed(negative, DigitsValue(body))]

IntParseTrimmed(t) == IntParseDigits(Unsigned(t), IsNegative(t))

\* int.Parse(s) / int.TryParse(s): NumberStyles.Integer accepts surrounding
\* white space, an optional leading sign and ASCII digits 0-9 only
IntParse(s) == IntParseTrimmed(Trim(s))

(***************************************************************************)
(* Outcomes of calls: a returned value or a thrown exception               *)
(***************************************************************************)
Return(v) == [threw |-> FALSE, exception |-> "", message |-> "", value |-> v]
Throw(e, m) == [threw |-> TRUE, exception |-> e, message |-> m, value |-> ""]

(***************************************************************************)
(* Transaction type catalog                                                *)
(***************************************************************************)
TransactionTypeMap ==
    [code \in 1..9 |->
        CASE code = 1 -> [name |-> "Debit", nature |-> "Income", description |-> "Debit transaction"]
          [] code = 2 -> [name |-> "Boleto", nature |-> "Expense", description |-> "Boleto payment"]
          [] code = 3 -> [name |-> "Financing", nature |-> "Expense", description |-> "Financing payment"]
          [] code = 4 -> [name |-> "Credit", nature |-> "Income", description |-> "Credit transaction"]
          [] code = 5 -> [name |-> "Loan Receipt", nature |-> "Income", description |-> "Loan receipt"]
          [] code = 6 -> [name |-> "Sales", nature |-> "Income", description |-> "Sales transaction"]
          [] code = 7 -> [name |-> "TED Receipt", nature |-> "Income", description |-> "TED receipt"]
          [] code = 8 -> [name |-> "DOC Receipt", nature |-> "Income", description |-> "DOC receipt"]
          [] code = 9 -> [name |-> "Rent", nature |-> "Expense", description |-> "Rent payment"]]

\* CNABParserService.GetTransactionTypeId: the switch over the nine codes
GetTransactionTypeId(code) ==
    CASE code = 1 -> Return("11111111-1111-1111-1111-111111111111")
      [] code = 2 -> Return("22222222-2222-2222-2222-222222222222")
      [] code = 3 -> Return("33333333-3333-3333-3333-333333333333")
      [] code = 4 -> Return("44444444-4444-4444-4444-444444444444")
      [] code = 5 -> Return("55555555-5555-5555-5555-555555555555")
      [] code = 6 -> Return("66666666-6666-6666-6666-666666666666")
      [] code = 7 -> Return("77777777-7777-7777-7777-777777777777")
      [] code = 8 -> Return("88888888-8888-8888-8888-888888888888")
      [] code = 9 -> Return("99999999-9999-9999-9999-999999999999")
      [] OTHER -> Throw("CNABParseException",
                        "Invalid transaction type code: " \o ToString(code))

\* CNABParserService.GetTransactionTypeName: TryGetValue on TransactionTypeMap
GetTransactionTypeName(code) ==
    IF code \in DOMAIN TransactionTypeMap
    THEN Return(TransactionTypeMap[code].name)
    ELSE Throw("CNABParseException", "Invalid transaction type code: " \o ToString(code))

\* cnabParser.ts getTransactionTypeInfo: typeMap[typeCode] || { Unknown }
getTransactionTypeInfo(typeCode) ==
    IF typeCode \in DOMAIN TransactionTypeMap
    THEN Return(TransactionTypeMap[typeCode])
    ELSE Return([name |-> "Unknown", nature |-> "Unknown",
                 description |-> "Unknown transaction type"])

\* cnabParser.ts mapTypeCodeToName: switch with a throwing default
mapTypeCodeToName(typeCode) ==
    CASE typeCode = 1 -> Return("Debit")
      [] typeCode = 2 -> Return("Boleto")
      [] typeCode = 3 -> Return("Financing")
      [] typeCode = 4 -> Return("Credit")
      [] typeCode = 5 -> Return("Loan Receipt")
      [] typeCode = 6 -> Return("Sales")
      [] typeCode = 7 -> Return("TED Receipt")
      [] typeCode = 8 -> Return("DOC Receipt")
      [] typeCode = 9 -> Return("Rent")
      [] OTHER -> Throw("Error", "Invalid type code: " \o ToString(typeCode))

LookupFunctions ==
    {"GetTransactionTypeId", "GetTransactionTypeName",
     "getTransactionTypeInfo", "mapTypeCodeToName"}

CatalogLookup(fn, code) ==
    CASE fn = "GetTransactionTypeId" -> GetTransactionTypeId(code)
      [] fn = "GetTransactionTypeName" -> GetTransactionTypeName(code)
      [] fn = "getTransactionTypeInfo" -> getTransactionTypeInfo(code)
      [] fn = "mapTypeCodeToName" -> mapTypeCodeToName(code)

(***************************************************************************)
(* Record validator                                                        *)
(***************************************************************************)
null == "<null>"

Quote(s) == "'" \o s \o "'"

LinePrefix(lineNumber) == "Line " \o ToString(lineNumber) \o ": "

\* Regex.IsMatch(s, @"^\d{n}$")
IsMatchDigits(s, n) == Len(s) = n /\ \A i \in 1..Len(s) : IsDigit(Char(s, i))

\* Regex.IsMatch(s, @"^[\d\*]{n}$")
IsMatchDigitsOrStar(s, n) ==
    Len(s) = n /\ \A i \in 1..Len(s) : IsDigit(Char(s, i)) \/ Char(s, i) = "*"

\* /^\d{n}$/.test(s)
testDigits(s, n) == Len(s) = n /\ \A i \in 1..Len(s) : IsAsciiDigit(Char(s, i))

\* the range test on the date, entered only when the three TryParse succeed
DateOutOfRange(year, month, day) ==
    /\ year.ok /\ month.ok /\ day.ok
    /\ \/ day.val < 1 \/ day.val > 31 \/ month.val < 1 \/ month.val > 12
       \/ year.val < 1900 \/ year.val > 2100

\* the range test on the time, entered only when the three TryParse succeed
TimeOutOfRange(hours, minutes, seconds) ==
    /\ hours.ok /\ minutes.ok /\ seconds.ok
    /\ \/ hours.val < 0 \/ hours.val > 23 \/ minutes.val < 0 \/ minutes.val > 59
       \/ seconds.val < 0 \/ seconds.val > 59

\* the checks of ValidateCNABDetailRecord with the store owner looked at first
DetailRecordChecksOwnerFirst(prefix, length, type, date, value, cpf, card, time, storeOwner, storeName) ==
    IF length # 80
    THEN prefix \o "Invalid record length " \o ToString(length) \o ", expected 80"
    ELSE IF IsNullOrWhiteSpace(storeOwner)
    THEN prefix \o "Store owner name cannot be empty"
    ELSE IF ~IsDigit(type)
    THEN prefix \o "Invalid type " \o Quote(type) \o ", expected digit 1-9"
    ELSE IF ~IsMatchDigits(date, 8)
    THEN prefix \o "Invalid date format " \o Quote(date) \o ", expected 8 digits"
    ELSE IF DateOutOfRange(IntParse(Substring(date, 0, 4)), IntParse(Substring(date, 4, 2)),
                           IntParse(Substring(date, 6, 2)))
    THEN prefix \o "Invalid date " \o Quote(date)
    ELSE IF ~IsMatchDigits(value, 10)
    THEN prefix \o "Invalid value format " \o Quote(value) \o ", expected 10 digits"
    ELSE IF ~IsMatchDigits(cpf, 11)
    THEN prefix \o "Invalid CPF format " \o Quote(cpf) \o ", expected 11 digits"
    ELSE IF ~IsMatchDigitsOrStar(card, 12)
    THEN prefix \o "Invalid card format " \o Quote(card) \o ", expected 12 digits or asterisks"
    ELSE IF ~IsMatchDigits(time, 6)
    THEN prefix \o "Invalid time format " \o Quote(time) \o ", expected 6 digits"
    ELSE IF TimeOutOfRange(IntParse(Substring(time, 0, 2)), IntParse(Substring(time, 2, 2)),
                           IntParse(Substring(time, 4, 2)))
    THEN prefix \o "Invalid time " \o Quote(time)
    ELSE IF IsNullOrWhiteSpace(storeName)
    THEN prefix \o "Store name cannot be empty"
    ELSE null

\* the checks of ValidateCNABDetailRecord, in the order of the source, on the
\* fields it cut out of the record
DetailRecordChecks(prefix, length, type, date, value, cpf, card, time, storeOwner, storeName) ==
    IF length # 80
    THEN prefix \o "Invalid record length " \o ToString(length) \o ", expected 80"
    ELSE IF ~IsDigit(type)
    THEN prefix \o "Invalid type " \o Quote(type) \o ", expected digit 1-9"
    ELSE IF ~IsMatchDigits(date, 8)
    THEN prefix \o "Invalid date format " \o Quote(date) \o ", expected 8 digits"
    ELSE IF DateOutOfRange(IntParse(Substring(date, 0, 4)), IntParse(Substring(date, 4, 2)),
                           IntParse(Substring(date, 6, 2)))
    THEN prefix \o "Invalid date " \o Quote(date)
    ELSE IF ~IsMatchDigits(value, 10)
    THEN prefix \o "Invalid value format " \o Quote(value) \o ", expected 10 digits"
    ELSE IF ~IsMatchDigits(cpf, 11)
    THEN prefix \o "Invalid CPF format " \o Quote(cpf) \o ", expected 11 digits"
    ELSE IF ~IsMatchDigitsOrStar(card, 12)
    THEN prefix \o "Invalid card format " \o Quote(card) \o ", expected 12 digits or asterisks"
    ELSE IF ~IsMatchDigits(time, 6)
    THEN prefix \o "Invalid time format " \o Quote(time) \o ", expected 6 digits"
    ELSE IF TimeOutOfRange(IntParse(Substring(time, 0, 2)), IntParse(Substring(time, 2, 2)),
                           IntParse(Substring(time, 4, 2)))
    THEN prefix \o "Invalid time " \o Quote(time)
    ELSE IF IsNullOrWhiteSpace(storeOwner)
    THEN prefix \o "Store owner name cannot be empty"
    ELSE IF IsNullOrWhiteSpace(storeName)
    THEN prefix \o "Store name cannot be empty"
    ELSE null

\* CNABParserService.ValidateCNABDetailRecord: null, or the first error message
ValidateCNABDetailRecord(rec, lineNumber) ==
    DetailRecordChecks(LinePrefix(lineNumber), Len(rec), Char(rec, 1),
                       Substring(rec, 1, 8), Substring(rec, 9, 10), Substring(rec, 19, 11),
                       Substring(rec, 30, 12), Substring(rec, 42, 6),
                       Trim(Substring(rec, 48, 14)), Trim(Substring(rec, 62, 18)))

\* JavaScript relational operators on numbers: false when either side is NaN
JsLess(a, b) == ~a.nan /\ ~b.nan /\ a.val < b.val
JsGreater(a, b) == ~a.nan /\ ~b.nan /\ a.val > b.val

\* day < 1 || day > 31 || month < 1 || month > 12 || year < 1900 || year > 2100
dateOutOfRange(day, month, year) ==
    \/ JsLess(day, Num(1)) \/ JsGreater(day, Num(31))
    \/ JsLess(month, Num(1)) \/ JsGreater(month, Num(12))
    \/ JsLess(year, Num(1900)) \/ JsGreater(year, Num(2100))

\* hours < 0 || hours > 23 || minutes < 0 || minutes > 59 || seconds < 0 || seconds > 59
timeOutOfRange(hours, minutes, seconds) ==
    \/ JsLess(hours, Num(0)) \/ JsGreater(hours, Num(23))
    \/ JsLess(minutes, Num(0)) \/ JsGreater(minutes, Num(59))
    \/ JsLess(seconds, Num(0)) \/ JsGreater(seconds, Num(59))

\* the checks of validateCNABDetailRecord, in the order of the source, on the
\* fields it cut out of the record
detailRecordChecks(prefix, length, type, date, value, cpf, card, time, storeOwner, storeName) ==
    IF length # 80
    THEN prefix \o "Invalid record length " \o ToString(length) \o ", expected 80"
    ELSE IF type # "1"
    THEN prefix \o "Invalid type " \o Quote(type) \o ", expected '1'"
    ELSE IF ~testDigits(date, 8)
    THEN prefix \o "Invalid date format " \o Quote(date) \o ", expected 8 digits"
    ELSE IF dateOutOfRange(parseInt(substring(date, 0, 2)), parseInt(substring(date, 2, 4)),
                           parseInt(substring(date, 4, 8)))
    THEN prefix \o "Invalid date " \o Quote(date)
    ELSE IF ~testDigits(value, 10)
    THEN prefix \o "Invalid value format " \o Quote(value) \o ", expected 10 digits"
    ELSE IF ~testDigits(cpf, 11)
    THEN prefix \o "Invalid CPF format " \o Quote(cpf) \o ", expected 11 digits"
    ELSE IF ~testDigits(card, 12)
    THEN prefix \o "Invalid card format " \o Quote(card) \o ", expected 12 digits"
    ELSE IF ~testDigits(time, 6)
    THEN prefix \o "Invalid time format " \o Quote(time) \o ", expected 6 digits"
    ELSE IF timeOutOfRange(parseInt(substring(time, 0, 2)), parseInt(substring(time, 2, 4)),
                           parseInt(substring(time, 4, 6)))
    THEN prefix \o "Invalid time " \o Quote(time)
    ELSE IF Len(storeOwner) = 0
    THEN prefix \o "Store owner name cannot be empty"
    ELSE IF Len(storeName) = 0
    THEN prefix \o "Store name cannot be empty"
    ELSE null

\* index.ts validateCNABDetailRecord: null (isValid: true), or the error
validateCNABDetailRecord(rec, lineNumber) ==
    detailRecordChecks(LinePrefix(lineNumber), Len(rec), substring(rec, 0, 1),
                       substring(rec, 1, 9), substring(rec, 9, 19), substring(rec, 19, 30),
                       substring(rec, 30, 42), substring(rec, 42, 48),
                       Trim(substring(rec, 48, 62)), Trim(substring(rec, 62, 81)))

(***************************************************************************)
(* Dates                                                                   *)
(***************************************************************************)
IsLeapYear(y) == (y % 4 = 0 /\ y % 100 # 0) \/ y % 400 = 0

DaysInMonth(y, m) ==
    IF m = 2 THEN (IF IsLeapYear(y) THEN 29 ELSE 28)
    ELSE IF m \in {4, 6, 9, 11} THEN 30 ELSE 31

\* new DateTime(year, month, day, hour, minute, second)
DateTimeCtor(year, month, day, hour, minute, second) ==
    IF /\ year \in 1..9999 /\ month \in 1..12
       /\ day >= 1 /\ day <= DaysInMonth(year, month)
       /\ hour \in 0..23 /\ minute \in 0..59 /\ second \in 0..59
    THEN Return([year |-> year, month |-> month, day |-> day,
                 hour |-> hour, minute |-> minute, second |-> second])
    ELSE Throw("ArgumentOutOfRangeException",
               "Year, Month, and Day parameters describe an un-representable DateTime.")

InvalidDate ==
    [invalid |-> TRUE, year |-> 0, month |-> 0, day |-> 0,
     hour |-> 0, minute |-> 0, second |-> 0]

PreviousMonth(y, m) == IF m = 1 THEN [year |-> y - 1, month |-> 12]
                       ELSE [year |-> y, month |-> m - 1]

NextMonth(y, m) == IF m = 12 THEN [year |-> y + 1, month |-> 1]
                   ELSE [year |-> y, month |-> m + 1]

\* day `offset` (0-based, possibly negative or past the end) of month m (1..12)
RECURSIVE DayFromOffset(_, _)
DayFromOffset(ym, offset) ==
    IF offset < 0
    THEN DayFromOffset(PreviousMonth(ym.year, ym.month),
                       offset + DaysInMonth(PreviousMonth(ym.year, ym.month).year,
                                            PreviousMonth(ym.year, ym.month).month))
    ELSE IF offset >= DaysInMonth(ym.year, ym.month)
    THEN DayFromOffset(NextMonth(ym.year, ym.month), offset - DaysInMonth(ym.year, ym.month))
    ELSE [year |-> ym.year, month |-> ym.month, day |-> offset + 1]

DateFromParts(d, tod) ==
    [invalid |-> FALSE, year |-> d.year, month |-> d.month - 1, day |-> d.day,
     hour |-> tod \div 3600, minute |-> (tod % 3600) \div 60, second |-> tod % 60]

DateFromSeconds(yr, monthIndex, day, secs) ==
    DateFromParts(DayFromOffset([year |-> yr + (monthIndex \div 12),
                                 month |-> (monthIndex % 12) + 1],
                                day - 1 + (secs \div 86400)),
                  secs % 86400)

\* new Date(year, monthIndex, day, hours, minutes, seconds): local time,
\* out-of-range components carry over, NaN gives Invalid Date
DateCtor(year, month, day, hour, minute, second) ==
    IF year.nan \/ month.nan \/ day.nan \/ hour.nan \/ minute.nan \/ second.nan
    THEN InvalidDate
    ELSE DateFromSeconds(IF year.val \in 0..99 THEN 1900 + year.val ELSE year.val,
                         month.val, day.val,
                         hour.val * 3600 + minute.val * 60 + second.val)

(***************************************************************************)
(* Amounts: System.Decimal and IEEE-754 binary64                           *)
(***************************************************************************)
\* decimal.Parse(valueStr) / 100m: a 96-bit integer coefficient with a decimal
\* scale; for a coefficient below 10^10 the quotient is num * 10^-2
DecimalDivide100(n) == [kind |-> "decimal", num |-> n, scale |-> 2]

RECURSIVE Pow2(_)
Pow2(k) == IF k = 0 THEN 1 ELSE 2 * Pow2(k - 1)

\* the e >= 0 with d * 2^e <= n < d * 2^(e+1), for n >= d
RECURSIVE ExponentUp(_, _, _)
ExponentUp(n, d, e) == IF n < 2 * d * Pow2(e) THEN e ELSE ExponentUp(n, d, e + 1)

\* the k >= 1 with d <= n * 2^k < 2 * d, for 0 < n < d
RECURSIVE ExponentDown(_, _, _)
ExponentDown(n, d, k) == IF n * Pow2(k) >= d THEN k ELSE ExponentDown(n, d, k + 1)

BitOf(r, d) == IF r >= d THEN 1 ELSE 0

\* `count` quotient bits of r / d by long division, and the doubled remainder
RECURSIVE QuotientBits(_, _, _, _)
QuotientBits(r, d, count, acc) ==
    IF count = 0 THEN [bits |-> acc, rem |-> r]
    ELSE QuotientBits(2 * (r - BitOf(r, d) * d), d, count - 1,
                      acc \o (IF r >= d THEN "1" ELSE "0"))

\* the binary number b plus one
IncrementBits(b) ==
    IF \A i \in 1..Len(b) : Char(b, i) = "1"
    THEN "1" \o Repeat("0", Len(b))
    ELSE LET z == CHOOSE k \in 1..Len(b) :
                      Char(b, k) = "0" /\ \A j \in (k + 1)..Len(b) : Char(b, j) = "1"
         IN  SubSeq(b, 1, z - 1) \o "1" \o Repeat("0", Len(b) - z)

MantissaBits == 53

Double(mant, exp) == [kind |-> "double", nan |-> FALSE, zero |-> FALSE, mant |-> mant, exp |-> exp]

NaNDouble == [kind |-> "double", nan |-> TRUE, zero |-> FALSE, mant |-> "", exp |-> 0]

ZeroDouble == [kind |-> "double", nan |-> FALSE, zero |-> TRUE, mant |-> "", exp |-> 0]

\* a mantissa that grew to 54 bits by rounding up is 2^53: renormalise
Normalize(m, e) ==
    IF Len(m) > MantissaBits THEN Double(SubSeq(m, 1, MantissaBits), e + 1) ELSE Double(m, e)

\* round to nearest, ties to even
RoundQuotient(q, d0, e) ==
    IF q.rem > d0 \/ (q.rem = d0 /\ Char(q.bits, MantissaBits) = "1")
    THEN Normalize(IncrementBits(q.bits), e)
    ELSE Normalize(q.bits, e)

DoubleWithExponent(n, d, e) ==
    RoundQuotient(QuotientBits(IF e >= 0 THEN n ELSE n * Pow2(0 - e),
                               IF e >= 0 THEN d * Pow2(e) ELSE d, MantissaBits, ""),
                  IF e >= 0 THEN d * Pow2(e) ELSE d, e)

\* the binary64 quotient n / d of two positive integers (exactly representable
\* themselves), rounded to nearest, ties to even: the value is mant * 2^(exp-52)
DoubleDivide(n, d) ==
    IF n = 0 THEN ZeroDouble
    ELSE DoubleWithExponent(n, d, IF n >= d THEN ExponentUp(n, d, 0)
                                  ELSE 0 - ExponentDown(n, d, 1))

\* parseInt(valueStr) / 100
NumberDivide100(v) == IF v.nan THEN NaNDouble ELSE DoubleDivide(v.val, 100)

\* the binary digits of n, most significant first ("" for 0)
RECURSIVE NatToBits(_)
NatToBits(n) ==
    IF n = 0 THEN "" ELSE NatToBits(n \div 2) \o (IF n % 2 = 1 THEN "1" ELSE "0")

BitAt(b, i) == IF Char(b, i) = "1" THEN 1 ELSE 0

PadLeft(b, len) == Repeat("0", len - Len(b)) \o b

\* the sum of two binary numbers of the same length, from bit i leftwards
RECURSIVE AddBitsFrom(_, _, _, _, _)
AddBitsFrom(a, b, i, carry, acc) ==
    IF i = 0 THEN (IF carry = 1 THEN "1" \o acc ELSE acc)
    ELSE AddBitsFrom(a, b, i - 1, (BitAt(a, i) + BitAt(b, i) + carry) \div 2,
                     (IF (BitAt(a, i) + BitAt(b, i) + carry) % 2 = 1 THEN "1" ELSE "0") \o acc)

AddPadded(a, b) == AddBitsFrom(a, b, Len(a), 0, "")

AddBits(a, b) ==
    IF Len(a) >= Len(b) THEN AddPadded(a, PadLeft(b, Len(a)))
    ELSE AddPadded(PadLeft(a, Len(b)), b)

\* 100 * b = 64 * b + 32 * b + 4 * b
BitsTimes100(b) == AddBits(AddBits(b \o "000000", b \o "00000"), b \o "00")

\* the product bits p (p * 2^(e-52) is the exact product) rounded to binary64
RoundProduct(p, e) ==
    IF Len(p) <= MantissaBits
    THEN Double(p \o Repeat("0", MantissaBits - Len(p)), e + Len(p) - MantissaBits)
    ELSE IF /\ Char(p, MantissaBits + 1) = "1"
            /\ \/ \E i \in (MantissaBits + 2)..Len(p) : Char(p, i) = "1"
               \/ Char(p, MantissaBits) = "1"
    THEN Normalize(IncrementBits(SubSeq(p, 1, MantissaBits)), e + Len(p) - MantissaBits)
    ELSE Normalize(SubSeq(p, 1, MantissaBits), e + Len(p) - MantissaBits)

\* the binary64 product x * 100 of JavaScript
DoubleTimes100(x) ==
    IF x.nan \/ x.zero THEN x ELSE RoundProduct(BitsTimes100(x.mant), x.exp)

\* the binary64 value of a natural number below 2^53
NatToDouble(n) ==
    IF n = 0 THEN ZeroDouble ELSE RoundProduct(NatToBits(n), MantissaBits - 1)

\* a < b for two binary numbers of the same length
BitsLess(a, b) ==
    \E i \in 1..Len(a) :
        /\ Char(a, i) = "0" /\ Char(b, i) = "1"
        /\ \A j \in 1..(i - 1) : Char(a, j) = Char(b, j)

\* the carry into bit i of a + b: a lower position generates one and every
\* position in between propagates it
CarryInto(a, b, i) ==
    \E j \in (i + 1)..Len(a) :
        /\ Char(a, j) = "1" /\ Char(b, j) = "1"
        /\ \A k \in (i + 1)..(j - 1) : Char(a, k) # Char(b, k)

\* the borrow from bit i of a - b
BorrowFrom(a, b, i) ==
    \E j \in (i + 1)..Len(a) :
        /\ Char(a, j) = "0" /\ Char(b, j) = "1"
        /\ \A k \in (i + 1)..(j - 1) : Char(a, k) = Char(b, k)

\* bit i of a + b (borrow = FALSE) or of a - b (borrow = TRUE)
ResultBit(a, b, i, inFromRight) ==
    IF (Char(a, i) # Char(b, i)) # inFromRight THEN "1" ELSE "0"

\* the bits lo..hi of a + b or a - b, for two numbers of the same length
RECURSIVE ResultBits(_, _, _, _, _)
ResultBits(a, b, lo, hi, subtract) ==
    IF lo > hi THEN ""
    ELSE IF lo = hi
    THEN ResultBit(a, b, lo, IF subtract THEN BorrowFrom(a, b, lo) ELSE CarryInto(a, b, lo))
    ELSE ResultBits(a, b, lo, (lo + hi) \div 2, subtract)
             \o ResultBits(a, b, (lo + hi) \div 2 + 1, hi, subtract)

\* a + b for two binary numbers of the same length
SumPadded(a, b) ==
    (IF CarryInto(a, b, 0) THEN "1" ELSE "") \o ResultBits(a, b, 1, Len(a), FALSE)

\* a - b for two binary numbers of the same length with a >= b
SubPadded(a, b) == ResultBits(a, b, 1, Len(a), TRUE)

\* b without its leading zeros
StripZeros(b) ==
    IF \A i \in 1..Len(b) : Char(b, i) = "0" THEN ""
    ELSE SubSeq(b, CHOOSE k \in 1..Len(b) :
                       Char(b, k) = "1" /\ \A j \in 1..(k - 1) : Char(b, j) = "0",
                Len(b))

\* the mantissa of x as a multiple of 2^(e-52), for e <= x.exp
Aligned(x, e) == x.mant \o Repeat("0", x.exp - e)

\* the exact sum or difference bits p (the value is p * 2^(e-52)) as a double
RoundBits(p, e) == IF p = "" THEN ZeroDouble ELSE RoundProduct(p, e)

\* a signed JavaScript number
SignedDouble(neg, abs) == [neg |-> neg /\ ~abs.zero /\ ~abs.nan, abs |-> abs]

\* x + y for two positive doubles whose aligned mantissas are a and b
MagnitudeSum(a, b, e) ==
    CHOOSE r \in {RoundBits(p, e) : p \in {SumPadded(a, b)}} : TRUE

\* |x - y| for two positive doubles whose aligned mantissas are a and b
MagnitudeDifference(a, b, e) ==
    CHOOSE r \in {RoundBits(StripZeros(p), e) :
                    p \in {IF BitsLess(a, b) THEN SubPadded(b, a) ELSE SubPadded(a, b)}} : TRUE

AddAligned(x, y, a, b, e) ==
    IF x.neg = y.neg THEN SignedDouble(x.neg, MagnitudeSum(a, b, e))
    ELSE SignedDouble(IF BitsLess(a, b) THEN y.neg ELSE x.neg, MagnitudeDifference(a, b, e))

AddPaddedTo(x, y, a, b, len, e) ==
    CHOOSE r \in {AddAligned(x, y, pa, pb, e) :
                    pa \in {PadLeft(a, len)}, pb \in {PadLeft(b, len)}} : TRUE

\* the operands as multiples of 2^(e-52), e the smaller exponent
AddAt(x, y, e) ==
    CHOOSE r \in {AddPaddedTo(x, y, a, b, IF Len(a) >= Len(b) THEN Len(a) ELSE Len(b), e) :
                    a \in {Aligned(x.abs, e)}, b \in {Aligned(y.abs, e)}} : TRUE

\* the binary64 sum x + y of JavaScript, round to nearest, ties to even
DoubleAdd(x, y) ==
    IF x.abs.nan \/ y.abs.nan THEN SignedDouble(FALSE, NaNDouble)
    ELSE IF x.abs.zero THEN y
    ELSE IF y.abs.zero THEN x
    ELSE AddAt(x, y, IF x.abs.exp <= y.abs.exp THEN x.abs.exp ELSE y.abs.exp)

\* the binary64 difference x - y of JavaScript
DoubleSubtract(x, y) == DoubleAdd(x, SignedDouble(~y.neg, y.abs))

(***************************************************************************)
(* Field decoder                                                           *)
(***************************************************************************)
NoTransaction == <<>>

AllOk(year, month, day, hour, minute, second) ==
    year.ok /\ month.ok /\ day.ok /\ hour.ok /\ minute.ok /\ second.ok

\* int.Parse of the six date and time fields, then new DateTime(...)
DateTimeOf(year, month, day, hour, minute, second) ==
    IF ~AllOk(year, month, day, hour, minute, second)
    THEN Throw("FormatException", "Input string was not in a correct format.")
    ELSE DateTimeCtor(year.val, month.val, day.val, hour.val, minute.val, second.val)

\* decimal.Parse(valueStr) / 100m (valueStr holds Unicode digits only, by the
\* record validator; decimal.Parse accepts the ASCII ones)
DecimalOf(valueStr) ==
    IF ~AllAsciiDigits(valueStr)
    THEN Throw("FormatException", "Input string was not in a correct format.")
    ELSE Return(DecimalDivide100(DigitsValue(valueStr)))

\* the ParsedTransaction initialiser, or the first exception on the way to it
TransactionDotnet(type, datetime, value, typeId, cpf, card, storeOwner, storeName) ==
    IF datetime.threw THEN datetime
    ELSE IF value.threw THEN value
    ELSE IF typeId.threw THEN typeId
    ELSE Return([typeCode |-> type, typeId |-> typeId.value, datetime |-> datetime.value,
                 value |-> value.value, cpf |-> cpf, card |-> card,
                 storeOwner |-> storeOwner, storeName |-> storeName])

DecodeFieldsDotnet(type, dateStr, valueStr, cpf, card, timeStr, storeOwner, storeName) ==
    TransactionDotnet(type,
                      DateTimeOf(IntParse(Substring(dateStr, 0, 4)),
                                 IntParse(Substring(dateStr, 4, 2)),
                                 IntParse(Substring(dateStr, 6, 2)),
                                 IntParse(Substring(timeStr, 0, 2)),
                                 IntParse(Substring(timeStr, 2, 2)),
                                 IntParse(Substring(timeStr, 4, 2))),
                      DecimalOf(valueStr), GetTransactionTypeId(type),
                      cpf, card, storeOwner, storeName)

\* ParseContent, the body of the try block after the record validator
DecodeDotnet(line, type) ==
    DecodeFieldsDotnet(type, Substring(line, 1, 8), Substring(line, 9, 10),
                       Substring(line, 19, 11), Substring(line, 30, 12),
                       Substring(line, 42, 6), Trim(Substring(line, 48, 14)),
                       Trim(Substring(line, 62, 18)))

\* parseInt(dateStr.substring(2, 4)) - 1
MinusOne(v) == IF v.nan THEN NaN ELSE Num(v.val - 1)

DecodeFieldsNode(type, dateStr, valueStr, cpf, card, timeStr, storeOwner, storeName) ==
    Return([typeCode |-> type, typeId |-> "",
            datetime |-> DateCtor(parseInt(substring(dateStr, 4, 8)),
                                  MinusOne(parseInt(substring(dateStr, 2, 4))),
                                  parseInt(substring(dateStr, 0, 2)),
                                  parseInt(substring(timeStr, 0, 2)),
                                  parseInt(substring(timeStr, 2, 4)),
                                  parseInt(substring(timeStr, 4, 6))),
            value |-> NumberDivide100(parseInt(valueStr)),
            cpf |-> cpf, card |-> card,
            storeOwner |-> storeOwner, storeName |-> storeName])

\* parseCNABContent, from "Parse transaction data" to transactions.push
DecodeNode(line, type) ==
    DecodeFieldsNode(type, substring(line, 1, 9), substring(line, 9, 19),
                     substring(line, 19, 30), substring(line, 30, 42),
                     substring(line, 42, 48), Trim(substring(line, 48, 62)),
                     Trim(substring(line, 62, 80)))

(***************************************************************************)
(* Line splitting                                                          *)
(***************************************************************************)
\* ParseContent / ValidateFile: Split, TrimEnd('\r', '\n'), drop white lines
DotnetLines(c) ==
    LET parts == Split(c)
        trimmed == [i \in 1..Len(parts) |-> StripLineEnd(parts[i])]
    IN  SelectSeq(trimmed, LAMBDA line : ~IsNullOrWhiteSpace(line))

\* parseCNABContent: split, keep the lines whose trim() is not empty (the
\* line ending is removed later, inside the loop)
NodeParserLines(c) == SelectSeq(Split(c), LAMBDA line : Len(Trim(line)) > 0)

\* validateCNABFile: split, remove the line ending, keep the non-empty lines
NodeValidatorLines(c) ==
    LET parts == Split(c)
        stripped == [i \in 1..Len(parts) |-> StripLineEnd(parts[i])]
    IN  SelectSeq(stripped, LAMBDA line : Len(line) > 0)

(***************************************************************************)
(* Batch parser: one iteration of the loop over the retained lines         *)
(***************************************************************************)
Outcome(action, exception, message, tx, validatorCalled, decoderCalled) ==
    [action |-> action, exception |-> exception, message |-> message, tx |-> tx,
     validatorCalled |-> validatorCalled, decoderCalled |-> decoderCalled]

\* the 0-based position of the last equal element
LastIndexOf(list, item) ==
    (CHOOSE i \in 1..Len(list) :
        list[i] = item /\ \A j \in (i + 1)..Len(list) : list[j] # item) - 1

\* List<string>.IndexOf(item): 0-based position of the first equal element
IndexOf(list, item) ==
    (CHOOSE i \in 1..Len(list) :
        list[i] = item /\ \A j \in 1..(i - 1) : list[j] # item) - 1

ValidTypesDotnet == {1, 2, 3, 4, 5, 6, 7, 8, 9}

ValidTypesNode == {1, 2, 3, 4, 5, 8, 9}

\* the try block: a CNABParseException passes, anything else is wrapped
TryDecode(line, dec) ==
    IF dec.threw /\ dec.exception = "CNABParseException"
    THEN Outcome("throw", dec.exception, dec.message, NoTransaction, TRUE, TRUE)
    ELSE IF dec.threw
    THEN Outcome("throw", "CNABParseException", "Error parsing CNAB line: " \o line,
                 NoTransaction, TRUE, TRUE)
    ELSE Outcome("add", "", "", dec.value, TRUE, TRUE)

\* a try block that drops the record the validator rejects and goes on
TryRecordSkippingInvalid(line, type, validationError) ==
    IF validationError # null
    THEN Outcome("continue", "", "", NoTransaction, TRUE, FALSE)
    ELSE TryDecode(line, DecodeDotnet(line, type))

\* the try block: the record validator, then the decoder
TryRecord(line, type, validationError) ==
    IF validationError # null
    THEN Outcome("throw", "CNABParseException", validationError, NoTransaction, TRUE, FALSE)
    ELSE TryDecode(line, DecodeDotnet(line, type))

\* the checks on the record type without "if (type == 9) continue"
ScanTypedWithoutSkip(list, line, typeChar, parsed) ==
    IF ~IsDigit(typeChar)
    THEN Outcome("throw", "CNABParseException",
                 "Invalid record type character: " \o typeChar, NoTransaction, FALSE, FALSE)
    ELSE IF ~parsed.ok
    THEN Outcome("throw", "FormatException", "Input string was not in a correct format.",
                 NoTransaction, FALSE, FALSE)
    ELSE IF parsed.val \notin ValidTypesDotnet
    THEN Outcome("throw", "CNABParseException",
                 "Invalid record type: " \o ToString(parsed.val), NoTransaction, FALSE, FALSE)
    ELSE TryRecord(line, parsed.val,
                   ValidateCNABDetailRecord(line, IndexOf(list, line) + 1))

\* the checks on the record type, then the record itself
ScanTyped(list, line, typeChar, parsed) ==
    IF ~IsDigit(typeChar)
    THEN Outcome("throw", "CNABParseException",
                 "Invalid record type character: " \o typeChar, NoTransaction, FALSE, FALSE)
    ELSE IF ~parsed.ok
    THEN Outcome("throw", "FormatException", "Input string was not in a correct format.",
                 NoTransaction, FALSE, FALSE)
    ELSE IF parsed.val \notin ValidTypesDotnet
    THEN Outcome("throw", "CNABParseException",
                 "Invalid record type: " \o ToString(parsed.val), NoTransaction, FALSE, FALSE)
    ELSE IF parsed.val = 9
    THEN Outcome("continue", "", "", NoTransaction, FALSE, FALSE)
    ELSE TryRecord(line, parsed.val,
                   ValidateCNABDetailRecord(line, IndexOf(list, line) + 1))

\* ParseContent: the body of foreach (var line in lines)
ScanLineDotnet(list, line) ==
    IF Len(line) # 80
    THEN Outcome("throw", "CNABParseException",
                 "Invalid record length: " \o ToString(Len(line))
                     \o ". Expected 80 characters for this CNAB format.",
                 NoTransaction, FALSE, FALSE)
    ELSE ScanTyped(list, line, Char(line, 1), IntParse(Char(line, 1)))

NumberToString(v) == IF v.nan THEN "NaN" ELSE ToString(v.val)

\* the body of the loop without the check of the type against the valid list
scanTypedWithoutTypeCheck(line, type) ==
    IF ~type.nan /\ type.val = 9
    THEN Outcome("continue", "", "", NoTransaction, FALSE, FALSE)
    ELSE Outcome("add", "", "", DecodeNode(line, type.val).value, FALSE, TRUE)

scanTyped(line, type) ==
    IF type.nan \/ type.val \notin ValidTypesNode
    THEN Outcome("throw", "Error", "Invalid record type: " \o NumberToString(type),
                 NoTransaction, FALSE, FALSE)
    ELSE IF type.val = 9
    THEN Outcome("continue", "", "", NoTransaction, FALSE, FALSE)
    ELSE Outcome("add", "", "", DecodeNode(line, type.val).value, FALSE, TRUE)

\* parseCNABContent: the body of for (let line of lines), on the line with
\* its line ending removed
ScanLineNode(line) ==
    IF Len(line) # 80
    THEN Outcome("throw", "Error",
                 "Invalid record length: " \o ToString(Len(line))
                     \o ". Expected 80 characters for this CNAB format.",
                 NoTransaction, FALSE, FALSE)
    ELSE scanTyped(line, parseInt(substring(line, 0, 1)))

ScanLine(b, list, i) ==
    IF b = "dotnet" THEN ScanLineDotnet(list, list[i])
    ELSE ScanLineNode(StripLineEnd(list[i]))

ParserLines(b, c) == IF b = "dotnet" THEN DotnetLines(c) ELSE NodeParserLines(c)

(***************************************************************************)
(* Structural validator                                                    *)
(***************************************************************************)
RECURSIVE Distinct(_)
Distinct(seq) ==
    IF Len(seq) = 0 THEN <<>>
    ELSE LET front == Distinct(SubSeq(seq, 1, Len(seq) - 1))
             last == seq[Len(seq)]
         IN  IF \E i \in 1..Len(front) : front[i] = last THEN front
             ELSE Append(front, last)

RECURSIVE JoinNumbers(_)
JoinNumbers(seq) ==
    IF Len(seq) = 0 THEN ""
    ELSE IF Len(seq) = 1 THEN ToString(seq[1])
    ELSE JoinNumbers(SubSeq(seq, 1, Len(seq) - 1)) \o ", " \o ToString(seq[Len(seq)])

Valid(format) == [isValid |-> TRUE, format |-> format, error |-> null]
Invalid(error) == [isValid |-> FALSE, format |-> null, error |-> error]
Pending == [isValid |-> FALSE, format |-> null, error |-> "<pending>"]

ValidTypeCodesDotnet == {"1", "2", "3", "4", "5", "6", "7", "8", "9"}

ValidTypeCodesNode == {"0", "1", "2", "3", "4", "5", "8", "9"}

\* position (0-based) of the first record whose first character is not in codes
FirstInvalidType(list, codes) ==
    (CHOOSE i \in 1..Len(list) :
        Char(list[i], 1) \notin codes /\ \A j \in 1..(i - 1) : Char(list[j], 1) \in codes) - 1

\* the checks after the split without the one on the distinct lengths
StructureChecksWithoutUniformity(list, uniqueLengths, codes) ==
    IF Len(list) = 0 THEN "File is empty"
    ELSE IF uniqueLengths[1] # 80
    THEN "Invalid record length: " \o ToString(uniqueLengths[1])
             \o ". Expected 80 characters for this CNAB format."
    ELSE IF Char(list[1], 1) \notin codes
    THEN "Missing or invalid header record"
    ELSE IF \E i \in 1..Len(list) : Char(list[i], 1) \notin codes
    THEN "Invalid record type at line " \o ToString(FirstInvalidType(list, codes) + 1)
             \o " (should start with valid type code)"
    ELSE null

\* the checks after the split with the note about the trailer made an error
StructureChecksRequiringTrailer(list, uniqueLengths, codes) ==
    IF Len(list) = 0 THEN "File is empty"
    ELSE IF Len(uniqueLengths) # 1
    THEN "Inconsistent record lengths - not a valid CNAB file. Found lengths: "
             \o JoinNumbers(uniqueLengths)
    ELSE IF uniqueLengths[1] # 80
    THEN "Invalid record length: " \o ToString(uniqueLengths[1])
             \o ". Expected 80 characters for this CNAB format."
    ELSE IF Char(list[1], 1) \notin codes
    THEN "Missing or invalid header record"
    ELSE IF \E i \in 1..Len(list) : Char(list[i], 1) \notin codes
    THEN "Invalid record type at line " \o ToString(FirstInvalidType(list, codes) + 1)
             \o " (should start with valid type code)"
    ELSE IF Char(list[Len(list)], 1) # "9"
    THEN "Missing trailer record"
    ELSE null

\* the checks after the split with the type codes looked at before the lengths
StructureChecksTypesFirst(list, uniqueLengths, codes) ==
    IF Len(list) = 0 THEN "File is empty"
    ELSE IF Char(list[1], 1) \notin codes
    THEN "Missing or invalid header record"
    ELSE IF \E i \in 1..Len(list) : Char(list[i], 1) \notin codes
    THEN "Invalid record type at line " \o ToString(FirstInvalidType(list, codes) + 1)
             \o " (should start with valid type code)"
    ELSE IF Len(uniqueLengths) # 1
    THEN "Inconsistent record lengths - not a valid CNAB file. Found lengths: "
             \o JoinNumbers(uniqueLengths)
    ELSE IF uniqueLengths[1] # 80
    THEN "Invalid record length: " \o ToString(uniqueLengths[1])
             \o ". Expected 80 characters for this CNAB format."
    ELSE null

\* the checks after the split, on the distinct line lengths
StructureChecks(list, uniqueLengths, codes) ==
    IF Len(list) = 0 THEN "File is empty"
    ELSE IF Len(uniqueLengths) # 1
    THEN "Inconsistent record lengths - not a valid CNAB file. Found lengths: "
             \o JoinNumbers(uniqueLengths)
    ELSE IF uniqueLengths[1] # 80
    THEN "Invalid record length: " \o ToString(uniqueLengths[1])
             \o ". Expected 80 characters for this CNAB format."
    ELSE IF Char(list[1], 1) \notin codes
    THEN "Missing or invalid header record"
    ELSE IF \E i \in 1..Len(list) : Char(list[i], 1) \notin codes
    THEN "Invalid record type at line " \o ToString(FirstInvalidType(list, codes) + 1)
             \o " (should start with valid type code)"
    ELSE null

LineLengths(list) == [i \in 1..Len(list) |-> Len(list[i])]

\* ValidateFile up to the call of ParseContent: null, or the error returned
StructureDotnet(list) ==
    StructureChecks(list, Distinct(LineLengths(list)), ValidTypeCodesDotnet)

ResultOf(error) == IF error = null THEN Valid("CNAB 80") ELSE Invalid(error)

\* index.ts validateCNABFile on the content read from filePath
validateCNABFile(c) ==
    ResultOf(StructureChecks(NodeValidatorLines(c),
                             Distinct(LineLengths(NodeValidatorLines(c))),
                             ValidTypeCodesNode))

(***************************************************************************)
(* Inputs                                                                  *)
(***************************************************************************)
MaxLines == 2

MakeLine(type, date, amount, cpf, card, time, owner, name) ==
    type \o date \o amount \o cpf \o card \o time \o owner \o name

BaseDate == "20190301"
BaseAmount == "0000014200"
BaseCpf == "09620676017"
BaseCard == "4753****3153"
BaseTime == "153453"
BaseOwner == "JOAO MACEDO   "
BaseName == "BAR DO JOAO       "

Detail(type) ==
    MakeLine(type, BaseDate, BaseAmount, BaseCpf, BaseCard, BaseTime, BaseOwner, BaseName)

\* the segments between line feeds that files are made of
SegmentPool ==
    { Detail("3"),
      MakeLine("5", BaseDate, "0000013200", "55641815063", "3123****7687", "145607",
               "MARIA JOSEFINA", "LOJA DO O - MATRIZ"),
      MakeLine("1", "01032019", BaseAmount, BaseCpf, "475312343153", BaseTime,
               BaseOwner, BaseName),
      "9" \o Repeat("X", 79),
      Detail("9"),
      Detail("6"),
      Detail("0"),
      Detail("A"),
      Detail(ArabicIndicThree),
      "320190301",
      "",
      "   ",
      Detail("3") \o "\r",
      MakeLine("3", BaseDate, BaseAmount, BaseCpf, BaseCard, BaseTime,
               Repeat(" ", 14), BaseName),
      MakeLine("3", "20190231", BaseAmount, BaseCpf, BaseCard, BaseTime, BaseOwner, BaseName),
      MakeLine("3", BaseDate, "00000A4200", BaseCpf, BaseCard, BaseTime, BaseOwner, BaseName) }

\* single records: every combination of these field values
TypePool == {"0", "1", "3", "6", "A", ArabicIndicThree}
DatePool ==
    {BaseDate, "01032019", "32132019", "2019AB01", "2019030" \o ArabicIndicThree,
     "2019130" \o ArabicIndicThree}
AmountPool == {BaseAmount, "00000A4200", "000001420" \o ArabicIndicThree}
CpfPool == {BaseCpf, "0962067601X"}
CardPool == {BaseCard, "475312343153", "4753----3153"}
TimePool == {BaseTime, "253453", "15345X"}
OwnerPool == {BaseOwner, Repeat(" ", 14)}
NamePool == {BaseName, Repeat(" ", 18)}

RecordPool ==
    { MakeLine(t, d, a, c, k, h, o, n) :
        t \in TypePool, d \in DatePool, a \in AmountPool, c \in CpfPool,
        k \in CardPool, h \in TimePool, o \in OwnerPool, n \in NamePool }

MaxCents == 60

\* n as a 10-digit amount field
FormatAmount(n) == Repeat("0", 10 - Len(ToString(n))) \o ToString(n)

AmountRecords ==
    { MakeLine(t, d, FormatAmount(n), BaseCpf, "475312343153", BaseTime, BaseOwner, BaseName) :
        t \in {"1"}, d \in {BaseDate, "01032019"}, n \in 0..MaxCents }

MaxCode == 99

Codes == (0 - MaxCode)..MaxCode

LookupsOf(b) ==
    IF b = "dotnet" THEN {"GetTransactionTypeId", "GetTransactionTypeName"}
    ELSE {"getTransactionTypeInfo", "mapTypeCodeToName"}

RECURSIVE JoinLines(_)
JoinLines(segs) ==
    IF Len(segs) = 0 THEN ""
    ELSE IF Len(segs) = 1 THEN segs[1]
    ELSE JoinLines(SubSeq(segs, 1, Len(segs) - 1)) \o "\n" \o segs[Len(segs)]

Files ==
    { JoinLines(segs) : segs \in UNION { [1..n -> SegmentPool] : n \in 0..MaxLines } }

(***************************************************************************)
(* State machine                                                           *)
(***************************************************************************)
NoResult == Return("<pending>")

NoLookup == [fn |-> "", code |-> 0, done |-> FALSE, result |-> NoResult]

NoRecordResult == [op |-> "", result |-> NoResult]

\* the workers that call the parser at the same time
NumWorkers == 2
Workers == 1..NumWorkers

\* a worker that has not called anything: the locals of an invocation
NoOutcome == [parse |-> NoResult, validate |-> Pending]

NoCall ==
    [op |-> "", content |-> "", pc |-> "Idle", lines |-> <<>>, lineIndex |-> 0,
     transactions |-> <<>>, result |-> NoOutcome]

NoCalls == [w \in Workers |-> NoCall]

\* a row of the TransactionTypes table
TypeRow(id, code) ==
    [id |-> id, code |-> code, name |-> TransactionTypeMap[code].name,
     nature |-> TransactionTypeMap[code].nature]

\* HasData of SeedTransactionTypes: the nine types, each with Id = Guid.NewGuid()
\* (a version-4 GUID, never one of the ids of GetTransactionTypeId)
SeededTypes == {TypeRow("seed-" \o ToString(code), code) : code \in DOMAIN TransactionTypeMap}

\* the database after EnsureCreated (.NET) or the migrations (Node)
EmptyDatabase(b) ==
    [fileUploads |-> 0, stores |-> {},
     transactionTypes |-> IF b = "dotnet" THEN SeededTypes ELSE {},
     transactions |-> <<>>]

NoRequest ==
    [content |-> "", status |-> 0, error |-> "", details |-> "", persist |-> "none",
     count |-> 0, before |-> EmptyDatabase("node")]

NoSummary == [done |-> FALSE, threw |-> FALSE, stores |-> <<>>]

\* the upload directory before any chunk arrives
EmptyDisk == [chunks |-> {}, info |-> {}, files |-> {}]

\* no request of the chunked upload API yet
NoChunked ==
    [count |-> 0, kind |-> "none", name |-> "", index |-> 0, total |-> 0, status |-> 0,
     error |-> "", assembled |-> FALSE, missing |-> FALSE, content |-> "",
     before |-> EmptyDisk, log |-> <<>>]

\* selectedFile = null, isUploading = false
NoClient ==
    [pc |-> "idle", name |-> "", content |-> "", i |-> 0, sent |-> {}, complete |-> "",
     uploadStatus |-> ""]

\* selectedStoreId = null (""), transactionDetails = [], isLoadingDetails = false
NoView ==
    [selectedStoreId |-> "", transactionDetails |-> <<>>, isLoadingDetails |-> FALSE,
     pending |-> {}, clicks |-> 0]

QuietServices ==
    /\ calls = NoCalls
    /\ db = EmptyDatabase(backend)
    /\ request = NoRequest
    /\ summary = NoSummary
    /\ disk = EmptyDisk
    /\ chunked = NoChunked
    /\ client = NoClient
    /\ view = NoView

QuietParser ==
    /\ QuietServices
    /\ caller = "none"
    /\ pc = "Idle"
    /\ lines = <<>>
    /\ lineIndex = 0
    /\ transactions = <<>>
    /\ validated = {}
    /\ decoded = {}
    /\ parseResult = NoResult
    /\ validateResult = Pending
    /\ recordResult = NoRecordResult

Quiet == QuietParser /\ lookup = NoLookup

Init ==
    /\ backend \in Backends
    /\ content \in Files
    /\ Quiet

Fresh == pc = "Idle" /\ caller = "none" /\ validateResult = Pending

\* entry of ParseContent / parseCNABContent: Idle -> Scanning(first line)
BeginParse(who) ==
    /\ caller' = who
    /\ pc' = "Scanning"
    /\ lines' = ParserLines(backend, content)
    /\ lineIndex' = 1
    /\ transactions' = <<>>

\* parse(content) called on its own
ParseStart ==
    /\ Fresh
    /\ BeginParse("parse")
    /\ UNCHANGED serviceVars
    /\ UNCHANGED <<backend, content, validated, decoded, parseResult, validateResult,
                   recordResult, lookup>>

\* one iteration that puts the new transaction in front of the batch
ApplyPrepending(o) ==
    /\ validated' = IF o.validatorCalled THEN validated \cup {lineIndex} ELSE validated
    /\ decoded' = IF o.decoderCalled THEN decoded \cup {lineIndex} ELSE decoded
    /\ IF o.action = "throw"
       THEN /\ pc' = "Failed"
            /\ parseResult' = Throw(o.exception, o.message)
            /\ UNCHANGED <<lineIndex, transactions>>
       ELSE /\ pc' = "Scanning"
            /\ lineIndex' = lineIndex + 1
            /\ transactions' = IF o.action = "add" THEN <<o.tx>> \o transactions
                               ELSE transactions
            /\ UNCHANGED parseResult

\* one iteration that moves two lines ahead
ApplySkipping(o) ==
    /\ validated' = IF o.validatorCalled THEN validated \cup {lineIndex} ELSE validated
    /\ decoded' = IF o.decoderCalled THEN decoded \cup {lineIndex} ELSE decoded
    /\ IF o.action = "throw"
       THEN /\ pc' = "Failed"
            /\ parseResult' = Throw(o.exception, o.message)
            /\ UNCHANGED <<lineIndex, transactions>>
       ELSE /\ pc' = "Scanning"
            /\ lineIndex' = lineIndex + 2
            /\ transactions' = IF o.action = "add" THEN Append(transactions, o.tx)
                               ELSE transactions
            /\ UNCHANGED parseResult

\* the effect of one iteration on the parser's state
Apply(o) ==
    /\ validated' = IF o.validatorCalled THEN validated \cup {lineIndex} ELSE validated
    /\ decoded' = IF o.decoderCalled THEN decoded \cup {lineIndex} ELSE decoded
    /\ IF o.action = "throw"
       THEN /\ pc' = "Failed"
            /\ parseResult' = Throw(o.exception, o.message)
            /\ UNCHANGED <<lineIndex, transactions>>
       ELSE /\ pc' = "Scanning"
            /\ lineIndex' = lineIndex + 1
            /\ transactions' = IF o.action = "add" THEN Append(transactions, o.tx)
                               ELSE transactions
            /\ UNCHANGED parseResult

\* one iteration of the loop: Scanning(i) -> Scanning(i+1) or Failed
ParseStep ==
    /\ pc = "Scanning"
    /\ lineIndex <= Len(lines)
    /\ Apply(ScanLine(backend, lines, lineIndex))
    /\ UNCHANGED serviceVars
    /\ UNCHANGED <<backend, content, caller, lines, validateResult, recordResult, lookup>>

\* the loop is over: Scanning -> Accepting, the batch is returned
ParseReturn ==
    /\ pc = "Scanning"
    /\ lineIndex > Len(lines)
    /\ pc' = "Accepting"
    /\ parseResult' = Return([transactions |-> transactions])
    /\ UNCHANGED serviceVars
    /\ UNCHANGED <<backend, content, caller, lines, lineIndex, transactions, validated,
                   decoded, validateResult, recordResult, lookup>>

\* ValidateFile (.NET): the structural checks, then "Try to parse the content"
ValidateStartDotnet ==
    /\ Fresh
    /\ backend = "dotnet"
    /\ IF StructureDotnet(DotnetLines(content)) # null
       THEN /\ validateResult' = Invalid(StructureDotnet(DotnetLines(content)))
            /\ UNCHANGED <<caller, pc, lines, lineIndex, transactions>>
       ELSE /\ BeginParse("validate")
            /\ UNCHANGED validateResult
    /\ UNCHANGED serviceVars
    /\ UNCHANGED <<backend, content, validated, decoded, parseResult, recordResult, lookup>>

\* ValidateFile (.NET) after ParseContent: (true, "CNAB 80", null), or the
\* catch block's (false, null, ex.Message)
ValidateReturnDotnet ==
    /\ caller = "validate"
    /\ pc \in {"Accepting", "Failed"}
    /\ validateResult = Pending
    /\ validateResult' = IF pc = "Accepting" THEN Valid("CNAB 80")
                         ELSE Invalid(parseResult.message)
    /\ UNCHANGED serviceVars
    /\ UNCHANGED <<backend, content, caller, pc, lines, lineIndex, transactions, validated,
                   decoded, parseResult, recordResult, lookup>>

\* validateCNABFile (Node): structural checks only
ValidateNode ==
    /\ Fresh
    /\ backend = "node"
    /\ validateResult' = validateCNABFile(content)
    /\ UNCHANGED serviceVars
    /\ UNCHANGED <<backend, content, caller, pc, lines, lineIndex, transactions, validated,
                   decoded, parseResult, recordResult, lookup>>

Next ==
    \/ ParseStart
    \/ ParseStep
    \/ ParseReturn
    \/ ValidateStartDotnet
    \/ ValidateReturnDotnet
    \/ ValidateNode

Spec == Init /\ [][Next]_vars

\* the files of the runs that are followed to their end
LiveFiles ==
    { JoinLines(segs) :
        segs \in UNION { [1..n -> { Detail("3"), Detail("9"), Detail("0"), Detail("A"),
                                     Detail(ArabicIndicThree), "320190301", "   ",
                                     MakeLine("3", "20190231", BaseAmount, BaseCpf, BaseCard,
                                              BaseTime, BaseOwner, BaseName) }] :
                          n \in 0..MaxLines } }

\* the outcome of every iteration of the loop, for every backend and content
ScanOutcomes ==
    [b \in Backends |-> [c \in LiveFiles |->
        [i \in 1..Len(ParserLines(b, c)) |-> ScanLine(b, ParserLines(b, c), i)]]]

\* ParseStep with the outcome of the iteration looked up in ScanOutcomes
ScanStep ==
    /\ pc = "Scanning"
    /\ lineIndex <= Len(lines)
    /\ Apply(ScanOutcomes[backend][content][lineIndex])
    /\ UNCHANGED serviceVars
    /\ UNCHANGED <<backend, content, caller, lines, validateResult, recordResult, lookup>>

\* a call, once entered, runs: the foreach takes its next line while there is
\* one, and the method returns when there is none
InitLive ==
    /\ backend \in Backends
    /\ content \in LiveFiles
    /\ Quiet

SpecLive == InitLive /\ [][Next]_vars /\ WF_vars(ScanStep) /\ WF_vars(ParseReturn)

(***************************************************************************)
(* The record validator and one loop iteration, applied to a single record *)
(***************************************************************************)
RecordValidator(b, rec, lineNumber) ==
    IF b = "dotnet" THEN ValidateCNABDetailRecord(rec, lineNumber)
    ELSE validateCNABDetailRecord(rec, lineNumber)

\* ParseContent calls ValidateCNABDetailRecord (a private method) on the
\* 80-character lines whose type is one of 1..8 only
ReachesValidator(b, rec) ==
    b = "dotnet" => /\ Len(rec) = 80
                    /\ Char(rec, 1) \in {"1", "2", "3", "4", "5", "6", "7", "8"}

ValidateRecord ==
    /\ recordResult.op = ""
    /\ ReachesValidator(backend, content)
    /\ recordResult' = [op |-> "validate", result |-> RecordValidator(backend, content, 1)]
    /\ UNCHANGED serviceVars
    /\ UNCHANGED <<backend, content, caller, pc, lines, lineIndex, transactions, validated,
                   decoded, parseResult, validateResult, lookup>>

ScanRecord ==
    /\ recordResult.op = ""
    /\ recordResult' = [op |-> "scan", result |-> ScanLine(backend, <<content>>, 1)]
    /\ UNCHANGED serviceVars
    /\ UNCHANGED <<backend, content, caller, pc, lines, lineIndex, transactions, validated,
                   decoded, parseResult, validateResult, lookup>>

RecordNext == ValidateRecord \/ ScanRecord

InitRecord ==
    /\ backend \in Backends
    /\ content \in RecordPool
    /\ Quiet

SpecRecord == InitRecord /\ [][RecordNext]_vars

InitAmount ==
    /\ backend \in Backends
    /\ content \in AmountRecords
    /\ Quiet

SpecAmount == InitAmount /\ [][RecordNext]_vars

(***************************************************************************)
(* Concurrent invocations: every worker runs parse or validate on its own  *)
(* content; the lines, the position and the batch are locals of the call   *)
(***************************************************************************)
parserVars == <<backend, content, caller, pc, lines, lineIndex, transactions,
                validated, decoded, parseResult, validateResult, recordResult, lookup>>

ConcurrentFiles ==
    { JoinLines(<<Detail("1"), Detail("3")>>),
      JoinLines(<<Detail("3"), "320190301">>),
      Detail("0") }

\* what the running call returns when its parser throws
CallFailure(op, o) ==
    IF op = "validate"
    THEN [parse |-> NoResult, validate |-> Invalid(o.message)]
    ELSE [parse |-> Throw(o.exception, o.message), validate |-> Pending]

\* what the running call returns when its loop is over
CallSuccess(op, txs) ==
    IF op = "validate"
    THEN [parse |-> NoResult, validate |-> Valid("CNAB 80")]
    ELSE [parse |-> Return([transactions |-> txs]), validate |-> Pending]

\* one iteration with a batch that all the running calls share
CallApplyShared(all, w, o) ==
    IF o.action = "throw"
    THEN [all EXCEPT ![w].pc = "Done", ![w].result = CallFailure(all[w].op, o)]
    ELSE [v \in DOMAIN all |->
            IF v = w
            THEN [all[v] EXCEPT !.lineIndex = @ + 1,
                                !.transactions = IF o.action = "add" THEN Append(@, o.tx)
                                                 ELSE @]
            ELSE IF all[v].pc = "Scanning" /\ o.action = "add"
            THEN [all[v] EXCEPT !.transactions = Append(@, o.tx)]
            ELSE all[v]]

\* one iteration of the loop of worker w: only the locals of w change
CallApply(all, w, o) ==
    IF o.action = "throw"
    THEN [all EXCEPT ![w].pc = "Done", ![w].result = CallFailure(all[w].op, o)]
    ELSE [all EXCEPT ![w].lineIndex = @ + 1,
                     ![w].transactions = IF o.action = "add" THEN Append(@, o.tx) ELSE @]

\* the locals at the entry of ParseContent / parseCNABContent
Scanning(op, c) ==
    [op |-> op, content |-> c, pc |-> "Scanning", lines |-> ParserLines(backend, c),
     lineIndex |-> 1, transactions |-> <<>>, result |-> NoOutcome]

\* a call that returned without running the parser
Returned(op, c, result) ==
    [op |-> op, content |-> c, pc |-> "Done", lines |-> <<>>, lineIndex |-> 0,
     transactions |-> <<>>, result |-> result]

\* worker w calls parse(c)
CallParse(w, c) ==
    /\ calls[w].pc \in {"Idle", "Done"}
    /\ calls' = [calls EXCEPT ![w] = Scanning("parse", c)]
    /\ UNCHANGED <<parserVars, db, request, summary, uiVars>>

\* worker w calls validate(c): the structural checks, and for .NET the parser
CallValidate(w, c) ==
    /\ calls[w].pc \in {"Idle", "Done"}
    /\ calls' = [calls EXCEPT ![w] =
                    IF backend = "node"
                    THEN Returned("validate", c,
                                  [parse |-> NoResult, validate |-> validateCNABFile(c)])
                    ELSE IF StructureDotnet(DotnetLines(c)) # null
                    THEN Returned("validate", c,
                                  [parse |-> NoResult,
                                   validate |-> Invalid(StructureDotnet(DotnetLines(c)))])
                    ELSE Scanning("validate", c)]
    /\ UNCHANGED <<parserVars, db, request, summary, uiVars>>

CallStep(w) ==
    /\ calls[w].pc = "Scanning"
    /\ calls[w].lineIndex <= Len(calls[w].lines)
    /\ calls' = CallApply(calls, w, ScanLine(backend, calls[w].lines, calls[w].lineIndex))
    /\ UNCHANGED <<parserVars, db, request, summary, uiVars>>

CallReturn(w) ==
    /\ calls[w].pc = "Scanning"
    /\ calls[w].lineIndex > Len(calls[w].lines)
    /\ calls' = [calls EXCEPT ![w].pc = "Done",
                              ![w].result = CallSuccess(calls[w].op, calls[w].transactions)]
    /\ UNCHANGED <<parserVars, db, request, summary, uiVars>>

NextConcurrent ==
    \E w \in Workers :
        \/ \E c \in ConcurrentFiles : CallParse(w, c)
        \/ \E c \in ConcurrentFiles : CallValidate(w, c)
        \/ CallStep(w)
        \/ CallReturn(w)

InitConcurrent ==
    /\ backend \in Backends
    /\ content = ""
    /\ Quiet

SpecConcurrent == InitConcurrent /\ [][NextConcurrent]_vars

\* parse as a function of the content alone: the loop run from line i
RECURSIVE ParseFrom(_, _, _, _)
ParseAfter(b, list, i, txs, o) ==
    IF o.action = "throw" THEN Throw(o.exception, o.message)
    ELSE ParseFrom(b, list, i + 1, IF o.action = "add" THEN Append(txs, o.tx) ELSE txs)

ParseFrom(b, list, i, txs) ==
    IF i > Len(list) THEN Return([transactions |-> txs])
    ELSE ParseAfter(b, list, i, txs, ScanLine(b, list, i))

ParseContent(b, c) == ParseFrom(b, ParserLines(b, c), 1, <<>>)

\* validate as a function of the content alone
ValidateFile(b, c) ==
    IF b = "node" THEN validateCNABFile(c)
    ELSE IF StructureDotnet(DotnetLines(c)) # null
    THEN Invalid(StructureDotnet(DotnetLines(c)))
    ELSE IF ParseContent(b, c).threw THEN Invalid(ParseContent(b, c).message)
    ELSE Valid("CNAB 80")

(***************************************************************************)
(* Storage and upload: the database, persist (StoreCNABDataAsync /         *)
(* storeCNABData), the upload handlers and the store summary               *)
(***************************************************************************)
MaxUploads == 2

\* a database operation that can fail: which one does, if any
Fault(phase, at) == [phase |-> phase, at |-> at]
NoFault == Fault("none", 0)
Faults ==
    {NoFault, Fault("file", 0), Fault("store", 0), Fault("transaction", 0)}
        \cup {Fault("type", k) : k \in 1..MaxLines}

Committed(database) == [db |-> database, threw |-> FALSE, message |-> ""]
Failed(database, message) == [db |-> database, threw |-> TRUE, message |-> message]

\* the Store row of an owner and a name (unique on the pair)
StoreKey(t) == <<t.storeOwner, t.storeName>>

\* the key of storeMap: $"{trans.StoreOwner}|{trans.StoreName}"
storeKey(t) == t.storeOwner \o "|" \o t.storeName

\* storeMap[key] after the loop over the batch: the store found or created
\* for the first transaction of the batch that has the key
storeMap(txs, key) ==
    StoreKey(txs[CHOOSE j \in 1..Len(txs) :
                     /\ storeKey(txs[j]) = key
                     /\ \A k \in 1..(j - 1) : storeKey(txs[k]) # key])

\* the rows of one batch in the tables
WithBatch(database, rows) ==
    [database EXCEPT !.fileUploads = @ + 1,
                     !.stores = @ \cup {rows[i].store : i \in 1..Len(rows)},
                     !.transactions = @ \o rows]

\* new Infrastructure.Entities.Transaction { TypeId = trans.TypeId, ... }
TransactionEntity(t, storeId, file) ==
    [typeId |-> t.typeId, type |-> GetTransactionTypeName(t.typeCode).value,
     cents |-> t.value.num, store |-> storeId, file |-> file]

\* the foreign key of Transactions.TypeId to TransactionTypes.Id (MySQL)
ForeignKeysHold(database, rows) ==
    \A i \in 1..Len(rows) :
        rows[i].typeId \in {r.id : r \in database.transactionTypes}

\* transaction.RollbackAsync: the rows written since BeginTransactionAsync go
Rollback(database, message) == Failed(database, message)

\* FileUploadService.StoreCNABDataAsync, everything inside one transaction
SaveBatchDotnet(database, txs, rows, fault) ==
    IF fault.phase = "file" THEN Rollback(database, "DbUpdateException")
    ELSE IF Len(txs) > 0 /\ fault.phase = "store" THEN Rollback(database, "DbUpdateException")
    ELSE IF Len(txs) > 0 /\ (fault.phase = "transaction" \/ ~ForeignKeysHold(database, rows))
    THEN Rollback(database, "DbUpdateException")
    ELSE Committed(WithBatch(database, rows))

StoreCNABDataAsync(database, txs, fault) ==
    SaveBatchDotnet(database, txs,
                    [i \in 1..Len(txs) |->
                        TransactionEntity(txs[i], storeMap(txs, storeKey(txs[i])),
                                          database.fileUploads + 1)],
                    fault)

\* the id of the TransactionTypes row of a code (a cuid, one row per code)
TypeIdOf(code) == "type-" \o ToString(code)

\* getOrCreateTransactionType for the first n of the codes
WithTypes(database, codes, n) ==
    [database EXCEPT !.transactionTypes =
        @ \cup {r \in {[id |-> TypeIdOf(codes[k]), code |-> codes[k],
                        name |-> getTransactionTypeInfo(codes[k]).value.name,
                        nature |-> getTransactionTypeInfo(codes[k]).value.nature] : k \in 1..n} :
                  \A old \in database.transactionTypes : old.code # r.code}]

\* the JavaScript numbers n / 100
Hundredths == [n \in 1..MaxCents |-> DoubleDivide(n, 100)]

\* the DECIMAL(15,2) column value, in cents, of a JavaScript number
ToCents(x) ==
    IF x.zero THEN 0 ELSE CHOOSE n \in 1..MaxCents : Hundredths[n] = x

\* tx.transaction.create({ data: { typeId, type, ..., value, storeId, fileUploadId } })
transactionData(t, storeId, file) ==
    [typeId |-> TypeIdOf(t.typeCode), type |-> mapTypeCodeToName(t.typeCode).value,
     cents |-> ToCents(t.value), store |-> storeId, file |-> file]

\* Prisma rejects an Invalid Date and a NaN
Storable(t) == ~t.datetime.invalid /\ ~t.value.nan

\* the callback of prisma.$transaction: rolled back when it throws
SaveBatchNode(database, txs, fault) ==
    IF fault.phase = "file" THEN Failed(database, "PrismaClientKnownRequestError")
    ELSE IF Len(txs) > 0 /\ fault.phase = "store"
    THEN Failed(database, "PrismaClientKnownRequestError")
    ELSE IF Len(txs) > 0 /\ fault.phase = "transaction"
    THEN Failed(database, "PrismaClientKnownRequestError")
    ELSE IF \E i \in 1..Len(txs) : ~Storable(txs[i])
    THEN Failed(database, "PrismaClientValidationError")
    ELSE Committed(WithBatch(database,
                             [i \in 1..Len(txs) |->
                                 transactionData(txs[i], storeMap(txs, storeKey(txs[i])),
                                                 database.fileUploads + 1)]))

\* storeCNABData: the types are created before prisma.$transaction starts
StoreWithTypes(database, txs, codes, fault) ==
    IF fault.phase = "type" /\ fault.at <= Len(codes)
    THEN Failed(WithTypes(database, codes, fault.at - 1), "PrismaClientKnownRequestError")
    ELSE SaveBatchNode(WithTypes(database, codes, Len(codes)), txs, fault)

storeCNABData(database, txs, fault) ==
    StoreWithTypes(database, txs, Distinct([i \in 1..Len(txs) |-> txs[i].typeCode]), fault)

\* what an upload request answered, and what it did to the database
Response(status, error, details, persist, stored, count, before) ==
    [status |-> status, error |-> error, details |-> details, persist |-> persist,
     db |-> stored.db, count |-> count, before |-> before]

NotStored(database) == Committed(database)

\* the request as the state keeps it
Answer(c, r) ==
    [content |-> c, status |-> r.status, error |-> r.error, details |-> r.details,
     persist |-> r.persist, count |-> r.count, before |-> r.before]

\* UploadController.Upload / CompleteUpload
UploadDotnet(database, c, validation, parsed, fault, count) ==
    IF c = ""
    THEN Response(400, "No file uploaded", "", "none", NotStored(database), count, database)
    ELSE IF ~validation.isValid
    THEN Response(400, validation.error, "", "none", NotStored(database), count, database)
    ELSE IF parsed.threw
    THEN Response(400, parsed.message, "", "none", NotStored(database), count, database)
    ELSE IF StoreCNABDataAsync(database, parsed.value.transactions, fault).threw
    THEN Response(500, "An error occurred while processing the file", "", "failed",
                  StoreCNABDataAsync(database, parsed.value.transactions, fault), count, database)
    ELSE Response(200, "", "", "committed",
                  StoreCNABDataAsync(database, parsed.value.transactions, fault), count, database)

\* POST /api/upload and POST /api/upload/complete of index.ts
UploadNode(database, c, validation, parsed, fault, count) ==
    IF ~validation.isValid
    THEN Response(400, "Invalid CNAB file format", validation.error, "none",
                  NotStored(database), count, database)
    ELSE IF parsed.threw
    THEN Response(400, "Failed to parse CNAB data", parsed.message, "none",
                  NotStored(database), count, database)
    ELSE IF storeCNABData(database, parsed.value.transactions, fault).threw
    THEN Response(400, "Failed to parse CNAB data",
                  storeCNABData(database, parsed.value.transactions, fault).message, "failed",
                  storeCNABData(database, parsed.value.transactions, fault), count, database)
    ELSE Response(200, "", "", "committed",
                  storeCNABData(database, parsed.value.transactions, fault), count, database)

\* the files the clients upload: the date is YYYYMMDD for the .NET backend
\* and DDMMYYYY for the Node backend
StoreLine(b, type, amount, owner) ==
    MakeLine(type, IF b = "dotnet" THEN BaseDate ELSE "01032019", amount, BaseCpf, BaseCard,
             BaseTime, owner, BaseName)

StoreFiles(b) ==
    { StoreLine(b, "1", "0000000010", BaseOwner),
      JoinLines(<<StoreLine(b, "1", "0000000020", BaseOwner),
                  StoreLine(b, "2", "0000000030", BaseOwner)>>),
      StoreLine(b, "3", "0000000020", "MARIA JOSEFINA"),
      StoreLine(b, "1", "A000000010", BaseOwner),
      JoinLines(<<MakeLine("1", IF b = "dotnet" THEN BaseDate ELSE "01032019", "0000000010",
                           BaseCpf, BaseCard, BaseTime, "A|B           ",
                           "C                 "),
                  MakeLine("1", IF b = "dotnet" THEN BaseDate ELSE "01032019", "0000000010",
                           BaseCpf, BaseCard, BaseTime, "A             ",
                           "B|C               ")>>),
      Detail("9"),
      Detail("0"),
      "320190301" }

\* what validate and parse answer on each of these files
Validations == [b \in Backends |-> [c \in StoreFiles(b) |-> ValidateFile(b, c)]]
Parses == [b \in Backends |-> [c \in StoreFiles(b) |-> ParseContent(b, c)]]

\* the handler with the file record written before the file is looked at
UploadStoringFirst(b, database, c, fault, count) ==
    IF ~ValidateFile(b, c).isValid \/ ParseContent(b, c).threw
    THEN Response(400, "Invalid CNAB file format", "", "none",
                  Committed(WithBatch(database, <<>>)), count, database)
    ELSE IF b = "dotnet"
    THEN UploadDotnet(database, c, ValidateFile(b, c), ParseContent(b, c), fault, count)
    ELSE UploadNode(database, c, ValidateFile(b, c), ParseContent(b, c), fault, count)

\* the upload request as a whole: validate, parse, persist, answer
HandleUpload(b, database, c, fault, count) ==
    CHOOSE r \in {IF b = "dotnet" THEN UploadDotnet(database, c, validation, parsed, fault, count)
                  ELSE UploadNode(database, c, validation, parsed, fault, count) :
                    validation \in {Validations[b][c]}, parsed \in {Parses[b][c]}} : TRUE

\* store.Transactions / store.transactions: the rows linked to the store
TransactionsOf(database, key) == SelectSeq(database.transactions, LAMBDA t : t.store = key)

\* t.TransactionType: the row the TypeId refers to, null when there is none
HasType(database, t) == \E r \in database.transactionTypes : r.id = t.typeId
NatureOf(database, t) == (CHOOSE r \in database.transactionTypes : r.id = t.typeId).nature

\* transactions.Where(t => t.TransactionType.Nature == nature).Sum(t => t.Value)
RECURSIVE SumWhere(_, _, _, _)
SumWhere(database, rows, nature, i) ==
    IF i > Len(rows) THEN 0
    ELSE (IF NatureOf(database, rows[i]) = nature THEN rows[i].cents ELSE 0)
             + SumWhere(database, rows, nature, i + 1)

\* TransactionService.GetStoreSummaryAsync, one StoreSummary (decimals in cents)
StoreSummary(key, count, income, expense) ==
    [store |-> key, transactionCount |-> count, totalIncome |-> income,
     totalExpense |-> expense, balance |-> income - expense]

GetStoreSummaryAsync(database) ==
    IF \E i \in 1..Len(database.transactions) : ~HasType(database, database.transactions[i])
    THEN [done |-> TRUE, threw |-> TRUE, stores |-> {}]
    ELSE [done |-> TRUE, threw |-> FALSE,
          stores |-> {StoreSummary(key, Len(TransactionsOf(database, key)),
                                   SumWhere(database, TransactionsOf(database, key), "Income", 1),
                                   SumWhere(database, TransactionsOf(database, key), "Expense", 1)) :
                        key \in database.stores}]

\* Number(t.value) of a DECIMAL(15,2)
NumberOf(cents) == SignedDouble(FALSE, DoubleDivide(cents, 100))

\* the callback of reduce: Income adds, anything else subtracts
reduceStep(database, sum, t) ==
    IF NatureOf(database, t) = "Income" THEN DoubleAdd(sum, NumberOf(t.cents))
    ELSE DoubleSubtract(sum, NumberOf(t.cents))

\* store.transactions.reduce(..., 0) from row i on
RECURSIVE reduce(_, _, _, _)
reduce(database, rows, i, sum) ==
    IF i > Len(rows) THEN sum
    ELSE CHOOSE r \in {reduce(database, rows, i + 1, s) :
                         s \in {reduceStep(database, sum, rows[i])}} : TRUE

\* cnabParser.ts getStoreSummary
getStoreSummary(database) ==
    [done |-> TRUE, threw |-> FALSE,
     stores |-> {[store |-> key,
                  transactionCount |-> Len(TransactionsOf(database, key)),
                  totalValue |-> reduce(database, TransactionsOf(database, key), 1,
                                        SignedDouble(FALSE, ZeroDouble))] :
                   key \in database.stores}]

\* one upload request, from the validation to the answer
Upload ==
    /\ request.count < MaxUploads
    /\ \E c \in StoreFiles(backend), fault \in Faults :
           \E r \in {HandleUpload(backend, db, c, fault, request.count + 1)} :
               /\ request' = Answer(c, r)
               /\ db' = r.db
    /\ summary' = NoSummary
    /\ UNCHANGED <<parserVars, calls, uiVars>>

\* GET /api/stores/summary
Summarize ==
    /\ ~summary.done
    /\ summary' = IF backend = "dotnet" THEN GetStoreSummaryAsync(db) ELSE getStoreSummary(db)
    /\ UNCHANGED <<parserVars, calls, db, request, uiVars>>

NextStore == Upload \/ Summarize

InitStore ==
    /\ backend \in Backends
    /\ content = ""
    /\ Quiet

SpecStore == InitStore /\ [][NextStore]_vars

(***************************************************************************)
(* The chunked upload: POST chunk and POST complete of both backends       *)
(***************************************************************************)
\* chunk indexes are 0..MaxChunks-1 and totalChunks is 0..MaxChunks
MaxChunks == 2

\* the requests one behaviour sends to the chunked upload API
MaxRequests == 4

\* CHUNK_SIZE, scaled from 1024 * 1024 bytes to characters of a record
ChunkSize == 40

\* the uploadId (.NET) or fileName (Node) of the requests
UploadNames == {"cnab.txt"}

\* the record the chunks are cut from
ChunkedLine(b) == StoreLine(b, "1", "0000000010", BaseOwner)

\* file.slice(start, end)
slice(s, start, end) == SubSeq(s, start + 1, Min(end, Len(s)))

\* the bodies of the chunk requests: the slices of the record, and no bytes
Pieces(b) ==
    {"", slice(ChunkedLine(b), 0, ChunkSize), slice(ChunkedLine(b), ChunkSize, 2 * ChunkSize)}

\* every file MaxChunks or fewer chunks can be put together to
RECURSIVE Assembled(_, _)
Assembled(b, n) ==
    IF n = 0 THEN {""}
    ELSE Assembled(b, n - 1) \cup {c \o p : c \in Assembled(b, n - 1), p \in Pieces(b)}

\* what validate and parse answer on each of them
Assemblies ==
    [b \in Backends |->
        [c \in Assembled(b, MaxChunks) |->
            [validation |-> ValidateFile(b, c), parsed |-> ParseContent(b, c)]]]

\* Path.Combine(_uploadPath, $"{uploadId}.chunk{chunkIndex}") and
\* path.join(tempDir, `${fileName}.chunk.${chunkIndex}`)
ChunkPath(b, name, i) ==
    IF b = "dotnet" THEN name \o ".chunk" \o ToString(i) ELSE name \o ".chunk." \o ToString(i)

\* Path.Combine(_uploadPath, $"{uploadId}.txt") and path.join(uploadsDir, fileName)
FinalPath(b, name) == IF b = "dotnet" THEN name \o ".txt" ELSE name

\* path.join(tempDir, `${fileName}.info.json`)
infoFile(name) == name \o ".info.json"

\* File.Exists / fs.existsSync
Exists(files, path) == \E f \in files : f.path = path

\* the bytes of an existing file
ReadFile(files, path) == (CHOOSE f \in files : f.path = path).data

\* a write that leaves an existing file as it is
WriteFileKeepingOld(files, path, data) ==
    IF Exists(files, path) THEN files ELSE files \cup {[path |-> path, data |-> data]}

\* FileMode.Create, fs.renameSync onto the path, fs.writeFileSync: the old file goes
WriteFile(files, path, data) ==
    {f \in files : f.path # path} \cup {[path |-> path, data |-> data]}

\* File.Delete / fs.unlinkSync
DeleteFile(files, path) == {f \in files : f.path # path}

\* what a request of the chunked upload API answered and left behind
ChunkAnswer(status, error, d, database, assembled, missing, c) ==
    [status |-> status, error |-> error, disk |-> d, db |-> database,
     assembled |-> assembled, missing |-> missing, content |-> c]

\* UploadController.UploadChunk
UploadChunk(d, database, uploadId, chunkIndex, data) ==
    IF data = ""
    THEN ChunkAnswer(400, "No chunk uploaded", d, database, FALSE, FALSE, "")
    ELSE ChunkAnswer(200, "",
                     [d EXCEPT !.chunks = WriteFile(@, ChunkPath("dotnet", uploadId, chunkIndex),
                                                    data)],
                     database, FALSE, FALSE, "")

\* chunksInfo, read from the info file when there is one
chunksInfo(d, fileName) ==
    IF Exists(d.info, infoFile(fileName)) THEN ReadFile(d.info, infoFile(fileName)) ELSE {}

\* POST /api/upload/chunk: the entries of chunksInfo that are set are kept as
\* the set of their indexes
uploadChunk(d, database, fileName, chunkIndex, data) ==
    ChunkAnswer(200, "",
                [d EXCEPT !.chunks = WriteFile(@, ChunkPath("node", fileName, chunkIndex), data),
                          !.info = WriteFile(@, infoFile(fileName),
                                             chunksInfo(d, fileName) \cup {chunkIndex})],
                database, FALSE, FALSE, "")

\* the rest of CompleteUpload once the final file is written
ProcessDotnet(d, database, uploadId, c, a, count) ==
    IF ~a.validation.isValid
    THEN ChunkAnswer(400, a.validation.error,
                     [d EXCEPT !.files = DeleteFile(@, FinalPath("dotnet", uploadId))],
                     database, TRUE, FALSE, c)
    ELSE CHOOSE x \in {ChunkAnswer(r.status, r.error, d, r.db, TRUE, FALSE, c) :
                         r \in {UploadDotnet(database, c, a.validation, a.parsed, NoFault,
                                             count)}} : TRUE

\* the loop of CompleteUpload from chunk i on: copy the chunk to the final
\* file and delete it, or answer that it is not there
RECURSIVE CombineChunks(_, _, _, _, _, _, _)
CombineChunks(d, database, uploadId, totalChunks, i, c, count) ==
    IF i >= totalChunks
    THEN ProcessDotnet(d, database, uploadId, c, Assemblies["dotnet"][c], count)
    ELSE IF ~Exists(d.chunks, ChunkPath("dotnet", uploadId, i))
    THEN ChunkAnswer(400, "Chunk " \o ToString(i) \o " not found", d, database, FALSE, TRUE, "")
    ELSE CombineChunks(
             [d EXCEPT !.files = WriteFile(@, FinalPath("dotnet", uploadId),
                                           c \o ReadFile(d.chunks,
                                                         ChunkPath("dotnet", uploadId, i))),
                       !.chunks = DeleteFile(@, ChunkPath("dotnet", uploadId, i))],
             database, uploadId, totalChunks, i + 1,
             c \o ReadFile(d.chunks, ChunkPath("dotnet", uploadId, i)), count)

\* UploadController.CompleteUpload: the final file is created first
CompleteUpload(d, database, uploadId, totalChunks, count) ==
    CombineChunks([d EXCEPT !.files = WriteFile(@, FinalPath("dotnet", uploadId), "")],
                  database, uploadId, totalChunks, 0, "", count)

\* the rest of POST /api/upload/complete once the final file is written:
\* the file is deleted unless the answer is 200
processNode(d, database, fileName, c, a, count) ==
    CHOOSE x \in {ChunkAnswer(r.status, r.error,
                              IF r.status = 200 THEN d
                              ELSE [d EXCEPT !.files = DeleteFile(@, FinalPath("node", fileName))],
                              r.db, TRUE, FALSE, c) :
                    r \in {UploadNode(database, c, a.validation, a.parsed, NoFault, count)}} : TRUE

\* the second loop of POST /api/upload/complete from chunk i on
RECURSIVE writeChunks(_, _, _, _, _, _, _)
writeChunks(d, database, fileName, totalChunks, i, c, count) ==
    IF i >= totalChunks
    THEN processNode([d EXCEPT !.files = WriteFile(@, FinalPath("node", fileName), c),
                               !.info = DeleteFile(@, infoFile(fileName))],
                     database, fileName, c, Assemblies["node"][c], count)
    ELSE IF ~Exists(d.chunks, ChunkPath("node", fileName, i))
    THEN ChunkAnswer(500, "Failed to complete upload",
                     [d EXCEPT !.files = WriteFile(@, FinalPath("node", fileName), c)],
                     database, FALSE, FALSE, "")
    ELSE writeChunks([d EXCEPT !.chunks = DeleteFile(@, ChunkPath("node", fileName, i))],
                     database, fileName, totalChunks, i + 1,
                     c \o ReadFile(d.chunks, ChunkPath("node", fileName, i)), count)

\* POST /api/upload/complete
completeUpload(d, database, fileName, totalChunks, count) ==
    IF ~Exists(d.info, infoFile(fileName))
    THEN ChunkAnswer(400, "Upload not found", d, database, FALSE, FALSE, "")
    ELSE IF \E i \in 0..(totalChunks - 1) : i \notin chunksInfo(d, fileName)
    THEN ChunkAnswer(400,
                     "Missing chunk " \o ToString(CHOOSE i \in 0..(totalChunks - 1) :
                                                     /\ i \notin chunksInfo(d, fileName)
                                                     /\ \A j \in 0..(i - 1) :
                                                            j \in chunksInfo(d, fileName)),
                     d, database, FALSE, TRUE, "")
    ELSE writeChunks(d, database, fileName, totalChunks, 0, "", count)

\* the request as the state keeps it; the log holds the chunks that were stored
Chunked(kind, name, index, total, data, r) ==
    [count |-> chunked.count + 1, kind |-> kind, name |-> name, index |-> index,
     total |-> total, status |-> r.status, error |-> r.error, assembled |-> r.assembled,
     missing |-> r.missing, content |-> r.content, before |-> disk,
     log |-> IF kind = "chunk" /\ r.status = 200
             THEN Append(chunked.log, [name |-> name, index |-> index, data |-> data])
             ELSE chunked.log]

\* one chunk request, from its arrival to its answer
ChunkRequest ==
    /\ chunked.count < MaxRequests
    /\ \E name \in UploadNames, i \in 0..(MaxChunks - 1), data \in Pieces(backend) :
           \E r \in {IF backend = "dotnet" THEN UploadChunk(disk, db, name, i, data)
                     ELSE uploadChunk(disk, db, name, i, data)} :
               /\ disk' = r.disk
               /\ chunked' = Chunked("chunk", name, i, 0, data, r)
    /\ UNCHANGED <<parserVars, calls, db, request, summary, client, view>>

\* one complete request, from its arrival to its answer
CompleteRequest ==
    /\ chunked.count < MaxRequests
    /\ \E name \in UploadNames, total \in 0..MaxChunks :
           \E r \in {IF backend = "dotnet"
                     THEN CompleteUpload(disk, db, name, total, chunked.count + 1)
                     ELSE completeUpload(disk, db, name, total, chunked.count + 1)} :
               /\ disk' = r.disk
               /\ db' = r.db
               /\ chunked' = Chunked("complete", name, 0, total, "", r)
    /\ UNCHANGED <<parserVars, calls, request, summary, client, view>>

NextChunk == ChunkRequest \/ CompleteRequest

InitChunk ==
    /\ backend \in Backends
    /\ content = ""
    /\ Quiet

SpecChunk == InitChunk /\ [][NextChunk]_vars

(***************************************************************************)
(* The upload view of the frontend, in front of the Node backend           *)
(***************************************************************************)
\* the characters the class [a-zA-Z0-9.-] lets through
SafeChars == "abcdefghijklmnopqrstuvwxyzABCDEFGHIJKLMNOPQRSTUVWXYZ0123456789.-"

\* file.name.replace(/[^a-zA-Z0-9.-]/g, '_') from character i on
RECURSIVE Sanitize(_, _)
Sanitize(name, i) ==
    IF i > Len(name) THEN ""
    ELSE (IF \E k \in 1..Len(SafeChars) : Char(SafeChars, k) = Char(name, i)
          THEN Char(name, i) ELSE "_") \o Sanitize(name, i + 1)

safeFileName(name) == Sanitize(name, 1)

\* Math.ceil(file.size / CHUNK_SIZE)
ChunksOf(c) == (Len(c) + ChunkSize - 1) \div ChunkSize

\* the files the user can select
SelectableNames == {"cnab.txt", "cnab_1.txt", "my file.txt"}
SelectableContents == {"", slice(ChunkedLine("node"), 0, ChunkSize), ChunkedLine("node")}

\* handleFileSelect
handleFileSelect ==
    /\ client.pc \in {"idle", "selected", "done", "failed"}
    /\ chunked.count < MaxRequests
    /\ \E name \in SelectableNames, c \in SelectableContents :
           client' = [NoClient EXCEPT !.pc = "selected", !.name = name, !.content = c]
    /\ UNCHANGED <<parserVars, calls, db, request, summary, disk, chunked, view>>

\* uploadFile up to the call of performUpload
uploadFile ==
    /\ client.pc = "selected"
    /\ client' = [client EXCEPT !.pc = "uploading", !.i = 0, !.uploadStatus = ""]
    /\ UNCHANGED <<parserVars, calls, db, request, summary, disk, chunked, view>>

\* one round of the loop of performUpload: the chunk request and its answer
SendChunk ==
    /\ client.pc = "uploading"
    /\ client.i < ChunksOf(client.content)
    /\ chunked.count < MaxRequests
    /\ \E r \in {uploadChunk(disk, db, safeFileName(client.name), client.i,
                             slice(client.content, client.i * ChunkSize,
                                   client.i * ChunkSize + ChunkSize))} :
           /\ disk' = r.disk
           /\ chunked' = Chunked("chunk", safeFileName(client.name), client.i, 0,
                                 slice(client.content, client.i * ChunkSize,
                                       client.i * ChunkSize + ChunkSize), r)
           /\ client' = IF r.status = 200
                        THEN [client EXCEPT !.i = @ + 1,
                                            !.sent = @ \cup {safeFileName(client.name)}]
                        ELSE [client EXCEPT !.pc = "failed",
                                            !.uploadStatus =
                                                "Upload failed. Will retry when online."]
    /\ UNCHANGED <<parserVars, calls, db, request, summary, view>>

\* the end of performUpload: the complete request and its answer (uploadStatus
\* without the details of the answer)
SendComplete ==
    /\ client.pc = "uploading"
    /\ client.i >= ChunksOf(client.content)
    /\ chunked.count < MaxRequests
    /\ \E r \in {completeUpload(disk, db, client.name, ChunksOf(client.content),
                                chunked.count + 1)} :
           /\ disk' = r.disk
           /\ db' = r.db
           /\ chunked' = Chunked("complete", client.name, 0, ChunksOf(client.content), "", r)
           /\ client' = [client EXCEPT
                  !.complete = client.name,
                  !.pc = IF r.status = 200 THEN "done" ELSE "failed",
                  !.uploadStatus =
                      IF r.status = 200 THEN "Upload completed successfully! Format: CNAB"
                      ELSE IF r.status = 400 THEN "CNAB validation failed"
                      ELSE "Upload failed"]
    /\ UNCHANGED <<parserVars, calls, request, summary, view>>

NextClient == handleFileSelect \/ uploadFile \/ SendChunk \/ SendComplete

InitClient ==
    /\ backend = "node"
    /\ content = ""
    /\ Quiet

SpecClient == InitClient /\ [][NextClient]_vars

(***************************************************************************)
(* The balance view of the frontend                                        *)
(***************************************************************************)
\* the clicks on detail buttons in one behaviour
MaxClicks == 4

\* the stores of the table
StoreIds == {"1", "2"}

\* the rows the map of fetchTransactionDetails makes of the answer for a store
DetailsOf(storeId) == <<[id |-> storeId \o "-1", storeId |-> storeId]>>

\* :disabled="isLoadingDetails && selectedStoreId === store.storeId"
ButtonDisabled(storeId) == view.isLoadingDetails /\ view.selectedStoreId = storeId

\* a click on the button of a store: toggleStoreDetails, and
\* fetchTransactionDetails up to its await of fetch
toggleStoreDetails(storeId) ==
    /\ view.clicks < MaxClicks
    /\ ~ButtonDisabled(storeId)
    /\ view' = IF view.selectedStoreId = storeId
               THEN [view EXCEPT !.selectedStoreId = "", !.transactionDetails = <<>>,
                                 !.clicks = @ + 1]
               ELSE [view EXCEPT !.selectedStoreId = storeId, !.isLoadingDetails = TRUE,
                                 !.pending = @ \cup {[id |-> view.clicks + 1,
                                                      storeId |-> storeId]},
                                 !.clicks = @ + 1]
    /\ UNCHANGED <<parserVars, calls, db, request, summary, disk, chunked, client>>

\* the answer to a fetch arrives: fetchTransactionDetails from its await on,
\* through try, catch and finally
DetailsResponse(f, ok) ==
    /\ f \in view.pending
    /\ view' = [view EXCEPT !.transactionDetails = IF ok THEN DetailsOf(f.storeId) ELSE <<>>,
                            !.isLoadingDetails = FALSE,
                            !.pending = @ \ {f}]
    /\ UNCHANGED <<parserVars, calls, db, request, summary, disk, chunked, client>>

NextView ==
    \/ \E storeId \in StoreIds : toggleStoreDetails(storeId)
    \/ \E f \in view.pending, ok \in BOOLEAN : DetailsResponse(f, ok)

InitView ==
    /\ backend \in Backends
    /\ content = ""
    /\ Quiet

SpecView == InitView /\ [][NextView]_vars

(***************************************************************************)
(* Catalog lookups                                                         *)
(***************************************************************************)
Lookup ==
    /\ ~lookup.done
    /\ lookup' = [lookup EXCEPT !.done = TRUE, !.result = CatalogLookup(lookup.fn, lookup.code)]
    /\ UNCHANGED serviceVars
    /\ UNCHANGED <<backend, content, caller, pc, lines, lineIndex, transactions, validated,
                   decoded, parseResult, validateResult, recordResult>>

InitCatalog ==
    /\ backend \in Backends
    /\ content = ""
    /\ QuietParser
    /\ lookup \in [fn : LookupsOf(backend), code : Codes, done : {FALSE}, result : {NoResult}]

SpecCatalog == InitCatalog /\ [][Lookup]_vars

(***************************************************************************)
(* Properties of the batch parser and the structural validator (Spec)      *)
(***************************************************************************)
\* the retained lines as the parser's loop examines them
Retained(b, c) ==
    IF b = "dotnet" THEN DotnetLines(c)
    ELSE [i \in 1..Len(NodeParserLines(c)) |-> StripLineEnd(NodeParserLines(c)[i])]

\* the retained lines as the structural validator examines them
ValidatorLines(b, c) == IF b = "dotnet" THEN DotnetLines(c) ELSE NodeValidatorLines(c)

IsTrailer(line) == Char(line, 1) = "9"

NonTrailers(list) == SelectSeq(list, LAMBDA line : ~IsTrailer(line))

MixedLengths(list) == \E i, j \in 1..Len(list) : Len(list[i]) # Len(list[j])

StartsWith(s, prefix) == Len(s) >= Len(prefix) /\ SubSeq(s, 1, Len(prefix)) = prefix

\* C1: when parse succeeds, the batch it returns holds exactly one
\* transaction per retained line whose first character is not '9'.
BatchLengthIsNonTrailerCount ==
    pc = "Accepting" =>
        /\ ~parseResult.threw
        /\ Len(parseResult.value.transactions)
               = Cardinality({i \in 1..Len(Retained(backend, content)) :
                                 ~IsTrailer(Retained(backend, content)[i])})

\* a file of a trailer and a detail record was accepted with one transaction
BatchWithTrailerAccepted ==
    /\ pc = "Accepting"
    /\ Len(Retained(backend, content)) = 2
    /\ \E i \in 1..2 : IsTrailer(Retained(backend, content)[i])
    /\ Len(parseResult.value.transactions) = 1

\* line i fails the parser's length, type or decoding step, or is a
\* non-trailer record the backend's record validator rejects
Faulty(i) ==
    \/ ScanLine(backend, lines, i).action = "throw"
    \/ /\ Len(Retained(backend, content)[i]) = 80
       /\ ~IsTrailer(Retained(backend, content)[i])
       /\ RecordValidator(backend, Retained(backend, content)[i], i) # null

\* C2: parse is fail-fast with no partial result: a file with a line that
\* fails the length check, the type check, the record validator or decoding
\* is never accepted; a failed parse returns an error and no batch, stopped
\* at the earliest failing line, and examined no line after it.
ParseFailsOnFirstFaultyLine ==
    /\ pc = "Accepting" => \A i \in 1..Len(lines) : ~Faulty(i)
    /\ pc = "Failed" =>
        /\ parseResult.threw
        /\ Faulty(lineIndex)
        /\ \A j \in 1..(lineIndex - 1) : ~Faulty(j)
        /\ (validated \cup decoded) \subseteq 1..lineIndex

\* C3: in an accepted file the k-th transaction of the batch comes from the
\* k-th retained line that is not a trailer, whatever the dates and times.
BatchKeepsLineOrder ==
    pc = "Accepting" =>
        /\ Len(parseResult.value.transactions) = Len(NonTrailers(Retained(backend, content)))
        /\ \A k \in 1..Len(parseResult.value.transactions) :
            /\ parseResult.value.transactions[k].typeCode
                   = DigitVal(Char(NonTrailers(Retained(backend, content))[k], 1))
            /\ parseResult.value.transactions[k].cpf
                   = Substring(NonTrailers(Retained(backend, content))[k], 19, 11)
            /\ parseResult.value.transactions[k].card
                   = Substring(NonTrailers(Retained(backend, content))[k], 30, 12)
            /\ parseResult.value.transactions[k].storeName
                   = Trim(Substring(NonTrailers(Retained(backend, content))[k], 62, 18))

\* two different transactions of the same date and time were returned
SameTimestampBatchAccepted ==
    /\ pc = "Accepting"
    /\ Len(parseResult.value.transactions) = 2
    /\ parseResult.value.transactions[1].datetime = parseResult.value.transactions[2].datetime
    /\ parseResult.value.transactions[1] # parseResult.value.transactions[2]

\* C4 as stated: a file whose retained lines have two or more distinct
\* lengths never gets a line passed to the field decoder.
MixedLengthsNeverDecoded ==
    MixedLengths(Retained(backend, content)) => decoded = {} /\ transactions = <<>>

\* C4: validate rejects a file whose retained lines have two or more
\* distinct lengths with the inconsistent-lengths error before any record is
\* validated or decoded, and parse called on its own never accepts such a
\* file (it may decode the 80-character lines in front of the first bad one).
MixedLengthsRejected ==
    /\ (validateResult # Pending /\ MixedLengths(ValidatorLines(backend, content))) =>
           /\ ~validateResult.isValid
           /\ StartsWith(validateResult.error, "Inconsistent record lengths")
           /\ pc = "Idle"
           /\ validated = {} /\ decoded = {} /\ transactions = <<>>
    /\ MixedLengths(Retained(backend, content)) => pc # "Accepting"

\* validate rejected a file of an 80-character record and a shorter line
MixedLengthsFileRejected ==
    /\ validateResult # Pending
    /\ ~validateResult.isValid
    /\ Len(ValidatorLines(backend, content)) = 2
    /\ Len(ValidatorLines(backend, content)[1]) = 80
    /\ Len(ValidatorLines(backend, content)[2]) < 80
    /\ StartsWith(validateResult.error, "Inconsistent record lengths")

\* C7: the parser skips an 80-character line of type 9 wherever it is: the
\* line is not validated, not decoded, adds no transaction and cannot make
\* parse fail, and scanning goes on with the next line.
TrailerLineSkipped ==
    [][(/\ pc = "Scanning"
        /\ lineIndex <= Len(lines)
        /\ Len(Retained(backend, content)[lineIndex]) = 80
        /\ IsTrailer(Retained(backend, content)[lineIndex]))
       => (/\ pc' = "Scanning"
           /\ lineIndex' = lineIndex + 1
           /\ transactions' = transactions
           /\ validated' = validated
           /\ decoded' = decoded
           /\ parseResult' = parseResult)]_vars

\* a trailer in front of a detail record was skipped and the file accepted
LeadingTrailerSkipped ==
    /\ pc = "Accepting"
    /\ Len(lines) = 2
    /\ IsTrailer(lines[1])
    /\ Len(transactions) = 1
    /\ decoded = {2}

\* every check of validate but the one on the trailer passes on the content
OtherChecksPass ==
    /\ Len(ValidatorLines(backend, content)) > 0
    /\ \A i \in 1..Len(ValidatorLines(backend, content)) :
        /\ Len(ValidatorLines(backend, content)[i]) = 80
        /\ Char(ValidatorLines(backend, content)[i], 1)
               \in (IF backend = "dotnet" THEN ValidTypeCodesDotnet ELSE ValidTypeCodesNode)
        /\ backend = "dotnet" =>
               ScanLine(backend, ValidatorLines(backend, content), i).action # "throw"

\* C8: the trailer is optional for validation: a file that passes every
\* other check is valid with format "CNAB 80", with or without a last line
\* that starts with '9'.
TrailerOptional ==
    (validateResult # Pending /\ OtherChecksPass) => validateResult = Valid("CNAB 80")

\* a file whose last line is not a trailer was reported valid
FileWithoutTrailerValid ==
    /\ validateResult # Pending
    /\ validateResult.isValid
    /\ validateResult.format = "CNAB 80"
    /\ ~IsTrailer(ValidatorLines(backend, content)[Len(ValidatorLines(backend, content))])

OneToNine == {"1", "2", "3", "4", "5", "6", "7", "8", "9"}

\* the parser is past the type check of line i, or is stopped at line i
TypeChecked(i) == i < lineIndex \/ (pc = "Failed" /\ i = lineIndex)

\* the parser let the leading character of line i through its type check
TypeAccepted(i) == i < lineIndex \/ i \in (validated \cup decoded)

\* the structural validator's errors about a leading character
IsTypeError(error) ==
    \/ StartsWith(error, "Missing or invalid header record")
    \/ StartsWith(error, "Invalid record type")

\* C6: the structural validator and the batch parser of each backend accept
\* the leading character of an 80-character line as a record type if and
\* only if it is one of the digits 1 to 9.
LeadingCharAcceptedIffOneToNine ==
    /\ \A i \in 1..Len(lines) :
           (Len(Retained(backend, content)[i]) = 80 /\ TypeChecked(i)) =>
               (TypeAccepted(i) <=> Char(Retained(backend, content)[i], 1) \in OneToNine)
    /\ (/\ validateResult # Pending
        /\ Len(ValidatorLines(backend, content)) > 0
        /\ \A i \in 1..Len(ValidatorLines(backend, content)) :
               Len(ValidatorLines(backend, content)[i]) = 80) =>
           (IsTypeError(validateResult.error)
                <=> \E i \in 1..Len(ValidatorLines(backend, content)) :
                        Char(ValidatorLines(backend, content)[i], 1) \notin OneToNine)

(***************************************************************************)
(* Properties of a single record (SpecRecord, SpecAmount)                  *)
(***************************************************************************)
DigitsOnly(s, n) == Len(s) = n /\ \A i \in 1..n : Char(s, i) \in AsciiDigits

\* the date rule on the day, month and year digits cut out of the field
DateRule(day, month, year) ==
    /\ DigitsValue(day) \in 1..31
    /\ DigitsValue(month) \in 1..12
    /\ DigitsValue(year) \in 1900..2100

\* the field rules of the record layout; the date is YYYYMMDD for the .NET
\* backend and DDMMYYYY for the Node backend
FieldRules(b, rec) ==
    /\ DigitsOnly(Substring(rec, 1, 8), 8)
    /\ IF b = "dotnet"
       THEN DateRule(Substring(rec, 7, 2), Substring(rec, 5, 2), Substring(rec, 1, 4))
       ELSE DateRule(Substring(rec, 1, 2), Substring(rec, 3, 2), Substring(rec, 5, 4))
    /\ DigitsOnly(Substring(rec, 9, 10), 10)
    /\ DigitsOnly(Substring(rec, 19, 11), 11)
    /\ \A i \in 31..42 : Char(rec, i) \in AsciiDigits \cup {"*"}
    /\ DigitsOnly(Substring(rec, 42, 6), 6)
    /\ DigitsValue(Substring(rec, 42, 2)) \in 0..23
    /\ DigitsValue(Substring(rec, 44, 2)) \in 0..59
    /\ DigitsValue(Substring(rec, 46, 2)) \in 0..59
    /\ Trim(Substring(rec, 48, 14)) # ""
    /\ Trim(Substring(rec, 62, 18)) # ""

\* C9: the record validator accepts an 80-character line that is not a
\* trailer if and only if every field rule holds on it.
ValidatorAcceptsIffFieldRules ==
    (recordResult.op = "validate" /\ Len(content) = 80 /\ ~IsTrailer(content)) =>
        (recordResult.result = null <=> FieldRules(backend, content))

\* amount * 100 in the arithmetic of the amount's own type
AmountTimes100(amount) ==
    IF amount.kind = "decimal" THEN [kind |-> "integer", val |-> amount.num]
    ELSE DoubleTimes100(amount)

Cents(n, kind) ==
    IF kind = "decimal" THEN [kind |-> "integer", val |-> n] ELSE NatToDouble(n)

\* C5: the decoded amount is the integer of the 10-digit field at offset 9
\* divided by 100 exactly: amount * 100 is that integer, without drift.
AmountIsFieldOverHundred ==
    (recordResult.op = "scan" /\ recordResult.result.action = "add") =>
        AmountTimes100(recordResult.result.tx.value)
            = Cents(DigitsValue(Substring(content, 9, 10)), recordResult.result.tx.value.kind)

(***************************************************************************)
(* Properties of the catalog lookups (SpecCatalog)                         *)
(***************************************************************************)
\* C10: every catalog lookup returns for the codes 1 to 9 and fails for
\* every other integer; none returns a default entry for an unknown code.
LookupFailsOutsideCatalog ==
    lookup.done =>
        IF lookup.code \in 1..9 THEN ~lookup.result.threw ELSE lookup.result.threw

(***************************************************************************)
(* Further properties of the parser and the validators                     *)
(***************************************************************************)
Contains(s, sub) ==
    \E i \in 1..(Len(s) - Len(sub) + 1) : SubSeq(s, i, i + Len(sub) - 1) = sub

\* C15: every transaction the parser holds or returns has a typeCode with a
\* catalog entry that is not the trailer code (1..8), and a line whose
\* leading character has no catalog entry never gets past the parser.
BatchTypeCodesInCatalog ==
    /\ \A k \in 1..Len(transactions) :
           /\ transactions[k].typeCode \in DOMAIN TransactionTypeMap
           /\ transactions[k].typeCode \in 1..8
    /\ \A i \in 1..Len(lines) :
           i < lineIndex => Char(Retained(backend, content)[i], 1) \in OneToNine

\* a batch with a transaction of type 6 and one of type 3 was returned
BatchOfTwoTypesAccepted ==
    /\ pc = "Accepting"
    /\ Len(transactions) = 2
    /\ transactions[1].typeCode = 6
    /\ transactions[2].typeCode = 3

\* the codes the backend's structural validator takes for a leading character
TypeCodesOf(b) == IF b = "dotnet" THEN ValidTypeCodesDotnet ELSE ValidTypeCodesNode

HasBadTypeCode(b, list) == \E i \in 1..Len(list) : Char(list[i], 1) \notin TypeCodesOf(b)

TypeErrorNamesLineAndCharacter ==
    (/\ validateResult # Pending
     /\ Len(ValidatorLines(backend, content)) > 0
     /\ \A i \in 1..Len(ValidatorLines(backend, content)) :
            Len(ValidatorLines(backend, content)[i]) = 80
     /\ HasBadTypeCode(backend, ValidatorLines(backend, content))) =>
        /\ ~validateResult.isValid
        /\ Contains(validateResult.error,
                    "line " \o ToString(FirstInvalidType(ValidatorLines(backend, content),
                                                         TypeCodesOf(backend)) + 1))
        /\ Contains(validateResult.error,
                    Char(ValidatorLines(backend, content)
                             [FirstInvalidType(ValidatorLines(backend, content),
                                               TypeCodesOf(backend)) + 1], 1))

\* a record every rule of the backend's validator holds on
GoodRecord(b) ==
    IF b = "dotnet" THEN Detail("3")
    ELSE MakeLine("1", "01032019", BaseAmount, BaseCpf, "475312343153", BaseTime,
                  BaseOwner, BaseName)

\* the fields in the order type, date, amount, customerId, cardNumber, time,
\* storeOwner, storeName: the first and the last character of each
FieldFirst == <<1, 2, 10, 20, 31, 43, 49, 63>>
FieldLast == <<1, 9, 19, 30, 42, 48, 62, 80>>

\* the good record with one field taken from rec
Isolate(b, rec, f) ==
    SubSeq(GoodRecord(b), 1, FieldFirst[f] - 1)
        \o SubSeq(rec, FieldFirst[f], FieldLast[f])
        \o SubSeq(GoodRecord(b), FieldLast[f] + 1, 80)

\* the fields of rec that violate a rule of the validator on their own
ViolatedFields(b, rec) ==
    {f \in 1..8 : RecordValidator(b, Isolate(b, rec, f), 1) # null}

\* the field an error message of the validator is about
FieldOfMessage(message) ==
    IF Contains(message, ": Invalid type ") THEN 1
    ELSE IF Contains(message, ": Invalid date ") THEN 2
    ELSE IF Contains(message, ": Invalid value ") THEN 3
    ELSE IF Contains(message, ": Invalid CPF ") THEN 4
    ELSE IF Contains(message, ": Invalid card ") THEN 5
    ELSE IF Contains(message, ": Invalid time ") THEN 6
    ELSE IF Contains(message, ": Store owner name ") THEN 7
    ELSE IF Contains(message, ": Store name ") THEN 8
    ELSE 0

\* C18: the record validator reports the rule of the earliest violated field
\* in the order type, date, amount, customerId, cardNumber, time, storeOwner,
\* storeName, and nothing when no field violates a rule.
ValidatorReportsEarliestViolation ==
    (recordResult.op = "validate" /\ Len(content) = 80) =>
        IF ViolatedFields(backend, content) = {}
        THEN recordResult.result = null
        ELSE /\ recordResult.result # null
             /\ FieldOfMessage(recordResult.result) \in ViolatedFields(backend, content)
             /\ \A f \in ViolatedFields(backend, content) :
                    FieldOfMessage(recordResult.result) <= f

\* a record with a bad date, a bad time and a blank store owner got the date error
DateErrorBeforeOwnerError ==
    /\ recordResult.op = "validate"
    /\ {2, 6, 7} \subseteq ViolatedFields(backend, content)
    /\ 1 \notin ViolatedFields(backend, content)
    /\ FieldOfMessage(recordResult.result) = 2

\* C19: when the record validator rejects a line during parse, the error
\* carries the 1-based position of that line among the retained lines.
ValidatorErrorCarriesLineNumber ==
    (pc = "Failed" /\ lineIndex \in validated /\ lineIndex \notin decoded) =>
        StartsWith(parseResult.message, LinePrefix(lineIndex))

\* the validator rejected the first of two identical lines
FirstOfIdenticalLinesRejected ==
    /\ pc = "Failed"
    /\ lineIndex = 1
    /\ lineIndex \in validated /\ lineIndex \notin decoded
    /\ Len(lines) = 2
    /\ lines[1] = lines[2]
    /\ StartsWith(parseResult.message, "Line 1: ")

\* C20: validation success implies decode success: the parser never fails on
\* a line it has passed to the field decoder.
DecodeNeverFailsAfterValidation ==
    pc = "Failed" => lineIndex \notin decoded

ResultOn(b, op, c) ==
    IF op = "parse" THEN [parse |-> ParseContent(b, c), validate |-> Pending]
    ELSE [parse |-> NoResult, validate |-> ValidateFile(b, c)]

\* C11: the result of a call of parse or validate is a function of its own
\* content, whatever the worker ran before and whatever the other workers
\* run at the same time; equal contents give equal results.
ResultDependsOnlyOnContent ==
    /\ \A w \in Workers :
           calls[w].pc = "Done" =>
               calls[w].result = ResultOn(backend, calls[w].op, calls[w].content)
    /\ \A v, w \in Workers :
           (/\ calls[v].pc = "Done" /\ calls[w].pc = "Done"
            /\ calls[v].op = calls[w].op /\ calls[v].content = calls[w].content) =>
               calls[v].result = calls[w].result

\* a worker returned a batch of two transactions while another worker was in
\* the middle of a different file
BatchReturnedBesideRunningCall ==
    \E v, w \in Workers :
        /\ calls[v].pc = "Done" /\ calls[v].op = "parse"
        /\ ~calls[v].result.parse.threw
        /\ Len(calls[v].result.parse.value.transactions) = 2
        /\ calls[w].pc = "Scanning" /\ calls[w].lineIndex = 2
        /\ Len(calls[w].transactions) = 1
        /\ calls[w].content # calls[v].content

(***************************************************************************)
(* Properties of the storage, the upload and the summary (SpecStore)       *)
(***************************************************************************)
\* the batch the last request handed to persist
BatchOf(b, c) == ParseContent(b, c).value.transactions

\* the rows of the transactions table written by the last request
NewRows == SubSeq(db.transactions, Len(request.before.transactions) + 1, Len(db.transactions))

\* C13: persist is all-or-nothing: after a failure the database holds no
\* FileUpload, Store, TransactionType or Transaction row created by the
\* call; after a success the file record, every needed store and every
\* transaction of the batch are present.
PersistIsAllOrNothing ==
    /\ request.persist = "failed" =>
           /\ db.fileUploads = request.before.fileUploads
           /\ db.stores = request.before.stores
           /\ db.transactionTypes = request.before.transactionTypes
           /\ db.transactions = request.before.transactions
    /\ request.persist = "committed" =>
           /\ db.fileUploads = request.before.fileUploads + 1
           /\ \A i \in 1..Len(BatchOf(backend, request.content)) :
                  StoreKey(BatchOf(backend, request.content)[i]) \in db.stores
           /\ Len(NewRows) = Len(BatchOf(backend, request.content))
           /\ \A i \in 1..Len(NewRows) :
                  /\ NewRows[i].store = StoreKey(BatchOf(backend, request.content)[i])
                  /\ NewRows[i].file = db.fileUploads

\* the content is rejected by the structural validator or by the batch parser
Rejected(b, c) == ~ValidateFile(b, c).isValid \/ ParseContent(b, c).threw

\* the error of the validator, or else of the parser
RejectionOf(b, c) ==
    IF ~ValidateFile(b, c).isValid THEN ValidateFile(b, c).error
    ELSE ParseContent(b, c).message

NatureByName(name) ==
    TransactionTypeMap[CHOOSE code \in DOMAIN TransactionTypeMap :
                           TransactionTypeMap[code].name = name].nature

\* the exact sum, in cents, of the rows of a store with the given nature
RECURSIVE CentsWhere(_, _, _)
CentsWhere(rows, nature, i) ==
    IF i > Len(rows) THEN 0
    ELSE (IF NatureByName(rows[i].type) = nature THEN rows[i].cents ELSE 0)
             + CentsWhere(rows, nature, i + 1)

ExactIncome(key) == CentsWhere(TransactionsOf(db, key), "Income", 1)
ExactExpense(key) == CentsWhere(TransactionsOf(db, key), "Expense", 1)

\* cents / 100 as the JavaScript number nearest to it
ExactNumber(cents) ==
    SignedDouble(cents < 0, DoubleDivide(IF cents < 0 THEN 0 - cents ELSE cents, 100))

SummaryRowIsExact(r) ==
    /\ r.transactionCount = Len(TransactionsOf(db, r.store))
    /\ IF backend = "dotnet"
       THEN /\ r.totalIncome = ExactIncome(r.store)
            /\ r.totalExpense = ExactExpense(r.store)
            /\ r.balance = ExactIncome(r.store) - ExactExpense(r.store)
       ELSE r.totalValue = ExactNumber(ExactIncome(r.store) - ExactExpense(r.store))

\* C12: the summary has, for every store, the number of its transactions,
\* the sum of its Income values, the sum of its Expense values and their
\* difference as the balance (the Node totalValue is that balance).
SummaryIsExact ==
    summary.done =>
        /\ ~summary.threw
        /\ {r.store : r \in summary.stores} = db.stores
        /\ \A r \in summary.stores : SummaryRowIsExact(r)

(***************************************************************************)
(* Error types of parse and the lines the two components retain (Spec)     *)
(***************************************************************************)
\* the error parse raises itself: CNABParseException (.NET), Error (Node)
ParseErrorOf(b) == IF b = "dotnet" THEN "CNABParseException" ELSE "Error"

\* C21: parse fails only with its typed parse error: whatever is raised
\* while a line is checked or converted leaves parse as that error, and no
\* other exception escapes.
ParseFailsOnlyWithParseError ==
    pc = "Failed" => parseResult.exception = ParseErrorOf(backend)

\* the lines of the running parse as its loop body sees them
ScannedLines == [i \in 1..Len(lines) |-> StripLineEnd(lines[i])]

\* C22: the batch parser and the structural validator of one backend derive
\* the same sequence of lines from the content.
ParserAndValidatorRetainSameLines ==
    pc # "Idle" => ScannedLines = ValidatorLines(backend, content)

(***************************************************************************)
(* The states of a parse run (SpecLive)                                    *)
(***************************************************************************)
Terminal == {"Accepting", "Failed"}

\* the steps a run may take from each of its states
ParseTransition ==
    /\ pc = "Idle" /\ pc' # "Idle" => pc' = "Scanning" /\ lineIndex' = 1
    /\ pc = "Scanning" =>
          \/ pc' = "Scanning" /\ lineIndex <= Len(lines) /\ lineIndex' = lineIndex + 1
          \/ pc' = "Failed" /\ lineIndex <= Len(lines) /\ lineIndex' = lineIndex
          \/ pc' = "Accepting" /\ lineIndex = Len(lines) + 1 /\ lineIndex' = lineIndex
    /\ pc \in Terminal => pc' = pc /\ parseResult' = parseResult
    /\ lines' # lines => pc = "Idle"

\* C23: a parse run goes from Idle to Scanning(1), advances by exactly one
\* line per step, ends in Accepting (batch returned) or Failed (error
\* returned) for every input, and never leaves that state.
ParseRunReachesTerminalState ==
    /\ [][ParseTransition]_vars
    /\ [][ParseStep <=> ScanStep]_vars
    /\ (pc = "Scanning") ~> (pc \in Terminal)
    /\ [](pc = "Accepting" => ~parseResult.threw)
    /\ [](pc = "Failed" => parseResult.threw)

\* a run that took two steps over two lines and returned its batch
TwoLinesScannedThenAccepted ==
    /\ pc = "Accepting"
    /\ Len(lines) = 2
    /\ lineIndex = 3
    /\ caller = "parse"
    /\ ~parseResult.threw

(***************************************************************************)
(* The parse step of an upload that passed validation (SpecStore)          *)
(***************************************************************************)
\* C24: when validate reports the file valid, the parse step of the same
\* upload succeeds: the request goes on to the persist step and is never
\* answered from the branch that handles a failed parse.
ParseSucceedsAfterValidation ==
    (request.count > 0 /\ ValidateFile(backend, request.content).isValid) =>
        /\ ~ParseContent(backend, request.content).threw
        /\ request.persist # "none"

\* C25: after a successful persist, every stored transaction of the batch is
\* linked to the Store row whose owner name and name are the transaction's
\* store owner and store name, whatever characters the two names contain.
TransactionsLinkedToOwnStore ==
    request.persist = "committed" =>
        \A i \in 1..Len(NewRows) :
            /\ NewRows[i].store = StoreKey(BatchOf(backend, request.content)[i])
            /\ NewRows[i].store \in db.stores

\* C26: in the .NET backend, every transaction handed to the database has a
\* TypeId that is the Id of a TransactionTypes row whose Code is the
\* transaction's type code: GetTransactionTypeId returns the seeded ids.
TypeIdsAreSeededIds ==
    (backend = "dotnet" /\ request.persist # "none") =>
        /\ \A i \in 1..Len(BatchOf(backend, request.content)) :
               \E r \in db.transactionTypes :
                   /\ r.id = BatchOf(backend, request.content)[i].typeId
                   /\ r.code = BatchOf(backend, request.content)[i].typeCode
        /\ \A i \in 1..Len(db.transactions) :
               \E r \in db.transactionTypes : r.id = db.transactions[i].typeId

\* C28: a complete request that is rejected because a chunk is missing
\* leaves the upload directory as it found it: every chunk stored so far is
\* still stored and no assembled file has been written
MissingChunkRejectionChangesNothing ==
    (chunked.kind = "complete" /\ chunked.missing) => disk = chunked.before

\* the data of the last chunk request stored for a name and an index
LatestData(log, name, index) ==
    log[CHOOSE k \in 1..Len(log) :
            /\ log[k].name = name /\ log[k].index = index
            /\ \A j \in (k + 1)..Len(log) : ~(log[j].name = name /\ log[j].index = index)].data

\* the latest data of the indexes i..total-1 of a name, in index order
RECURSIVE LatestFrom(_, _, _, _)
LatestFrom(log, name, i, total) ==
    IF i >= total THEN ""
    ELSE LatestData(log, name, i) \o LatestFrom(log, name, i + 1, total)

\* C29: when a complete request has assembled the file, every index below
\* totalChunks has been uploaded and the file is the latest data of the
\* indexes 0 to totalChunks-1, in index order
AssembledFileIsLatestChunksInIndexOrder ==
    (chunked.kind = "complete" /\ chunked.assembled) =>
        /\ \A i \in 0..(chunked.total - 1) :
               \E k \in 1..Len(chunked.log) :
                   chunked.log[k].name = chunked.name /\ chunked.log[k].index = i
        /\ chunked.content = LatestFrom(chunked.log, chunked.name, 0, chunked.total)

\* chunk 1 arrived before chunk 0, chunk 0 was then uploaded again with
\* other data, and the record made of the two latest chunks was assembled
ReuploadedOutOfOrderChunksAssembled ==
    /\ chunked.kind = "complete" /\ chunked.assembled
    /\ chunked.total = 2
    /\ Len(chunked.log) = 3
    /\ chunked.log[1].index = 1
    /\ chunked.log[2].index = 0 /\ chunked.log[3].index = 0
    /\ chunked.log[2].data # chunked.log[3].data
    /\ chunked.content = ChunkedLine(backend)

\* C27: once performUpload has sent its complete request, the fileName of
\* that request is the fileName sent with every chunk of the upload, and
\* the server has found the upload of the chunks it stored
CompleteNamesTheUploadOfItsChunks ==
    (client.pc \in {"done", "failed"} /\ client.complete # "") =>
        /\ \A n \in client.sent : n = client.complete
        /\ client.sent # {} => chunked.error # "Upload not found"

\* the rows the template shows: the details section is rendered for a
\* selected store with rows, and shows them once loading is over
VisibleDetails ==
    IF view.selectedStoreId # "" /\ Len(view.transactionDetails) > 0 /\ ~view.isLoadingDetails
    THEN view.transactionDetails
    ELSE <<>>

\* C30: the rows on screen are rows of the selected store, and once no
\* fetch is in flight transactionDetails holds rows of the selected store
\* only, and none when no store is selected
DetailsBelongToSelectedStore ==
    /\ \A i \in 1..Len(VisibleDetails) : VisibleDetails[i].storeId = view.selectedStoreId
    /\ view.pending = {} =>
           \A i \in 1..Len(view.transactionDetails) :
               view.transactionDetails[i].storeId = view.selectedStoreId
====
